---------------------------- MODULE Spec2Model ----------------------------
(***************************************************************************)
(* Result reconciliation and evaluation engine of the privacy-policy LLM   *)
(* pipeline: combine_results (combinator.py), filter_results, evaluate,    *)
(* compute_distribution and print_report (evaluate.py), print_delta        *)
(* (compare.py), with the difflib.SequenceMatcher ratio the filter calls   *)
(* and the sklearn classification_report evaluate calls, and the threads   *)
(* of the inference runner (inference.py).                                 *)
(***************************************************************************)
EXTENDS Integers, Sequences, FiniteSets, TLC

VARIABLES
    pc,          \* position of the running tool
    fed,         \* history: per model, the records read so far, in reading order
    combined,    \* combine_results: the dict being built (ordered: a sequence of entries)
    output_path, \* combine_results: TRUE when a destination was given
    written,     \* combine_results: the content of the destination file
    pending,     \* combine_results: the input files still to be read (planned runs)
    inputs,      \* combine_results: the input files read so far (planned runs)
    results,     \* filter_results: the list handed in
    threshold,   \* filter_results: the threshold handed in, a fraction <<num, den>>
    filtered,    \* filter_results: what the call returned
    total,       \* evaluate.py: the record count compute_distribution returned
    dist,        \* evaluate.py: the label counts compute_distribution returned
    metrics,     \* evaluate.py: what evaluate returned
    metrics1,    \* compare.py: the metrics of the first file
    metrics2,    \* compare.py: the metrics of the second file
    printed,     \* the lines the tools have put out so far
    args_filter, \* evaluate.py: TRUE when --filter was given
    first_model, \* compare.py: the model whose records give the distributions
    model_list,  \* inference.py: the model ids handed to run_inference
    policies,    \* inference.py: the loaded policies (data), read by every worker
    workers,     \* inference.py: per thread, its position, item index and results
    lock,        \* inference.py: 0 when free, else the index of the thread holding it
    all_results, \* inference.py: the shared dict (ordered: a sequence of entries)
    dump,        \* inference.py: the content of the file at DUMP_PATH
    joined       \* inference.py: the number of threads run_inference has joined

vars == <<pc, fed, combined, output_path, written, pending, inputs,
          results, threshold, filtered,
          total, dist, metrics, metrics1, metrics2, printed,
          args_filter, first_model,
          model_list, policies, workers, lock, all_results, dump, joined>>

mergeVars == <<fed, combined, output_path, written, pending, inputs>>
filterVars == <<results, threshold, filtered>>
reportVars == <<total, dist, metrics, metrics1, metrics2, printed>>
runVars == <<args_filter, first_model>>
inferVars == <<model_list, policies, workers, lock, all_results, dump, joined>>

-----------------------------------------------------------------------------
(* Python values.  JSON gives strings, integers and null; a string is a    *)
(* sequence of one-character strings.                                       *)

PyNone == [t |-> "none", s |-> <<>>, n |-> 0]
PyS(s) == [t |-> "str", s |-> s, n |-> 0]
PyInt(n) == [t |-> "int", s |-> <<>>, n |-> n]

DigitChar == <<"0", "1", "2", "3", "4", "5", "6", "7", "8", "9">>

RECURSIVE Digits(_)
Digits(n) == IF n < 10 THEN <<DigitChar[n + 1]>>
             ELSE Digits(n \div 10) \o <<DigitChar[(n % 10) + 1]>>

\* str(v): the identity on a string, the decimal digits of an integer, "None" of None
PyStr(v) == CASE v.t = "str" -> v.s
              [] v.t = "int" -> Digits(v.n)
              [] OTHER -> <<"N", "o", "n", "e">>

\* r.get(f): the value of the field, None when the record has no such field
Get(r, f) == IF f \in DOMAIN r THEN r[f] ELSE PyNone

\* r[f] is a KeyError when the record has no such field
HasKey(r, f) == f \in DOMAIN r

-----------------------------------------------------------------------------
(* difflib.SequenceMatcher(None, a, b).ratio(), without junk (isjunk is    *)
(* None, and the popularity heuristic needs 200 characters).               *)

\* length of the common run of a from i and b from j, inside a[..ahi], b[..bhi]
RECURSIVE RunLen(_, _, _, _, _, _)
RunLen(a, b, i, j, ahi, bhi) ==
    IF i > ahi \/ j > bhi \/ a[i] # b[j] THEN 0
    ELSE 1 + RunLen(a, b, i + 1, j + 1, ahi, bhi)

\* find_longest_match: the longest block; of those the earliest in a; of those
\* the earliest in b.  Indices are 1-based and the ranges alo..ahi, blo..bhi inclusive.
FindLongestMatch(a, b, alo, ahi, blo, bhi) ==
    LET cand == {<<i, j>> \in (alo..ahi) \X (blo..bhi) : a[i] = b[j]}
        len(p) == RunLen(a, b, p[1], p[2], ahi, bhi)
    IN IF cand = {} THEN [i |-> alo, j |-> blo, k |-> 0]
       ELSE LET best == CHOOSE p \in cand :
                    \A q \in cand :
                        \/ len(p) > len(q)
                        \/ /\ len(p) = len(q)
                           /\ \/ p[1] < q[1]
                              \/ p[1] = q[1] /\ p[2] <= q[2]
            IN [i |-> best[1], j |-> best[2], k |-> len(best)]

\* get_matching_blocks, summed: the block, then the pieces left and right of it
RECURSIVE MatchCount(_, _, _, _, _, _)
MatchCount(a, b, alo, ahi, blo, bhi) ==
    IF alo > ahi \/ blo > bhi THEN 0
    ELSE LET m == FindLongestMatch(a, b, alo, ahi, blo, bhi)
         IN IF m.k = 0 THEN 0
            ELSE m.k + MatchCount(a, b, alo, m.i - 1, blo, m.j - 1)
                     + MatchCount(a, b, m.i + m.k, ahi, m.j + m.k, bhi)

\* ratio() as a fraction <<num, den>>: 2.0 * matches / length, and 1.0 when both are empty
Ratio(a, b) ==
    IF Len(a) + Len(b) = 0 THEN <<1, 1>>
    ELSE <<2 * MatchCount(a, b, 1, Len(a), 1, Len(b)), Len(a) + Len(b)>>

\* mutant: the comparison is turned round (ratio <= threshold)
RatioAtLeast_Flipped(r, t) == r[1] * t[2] <= t[1] * r[2]

\* ratio >= threshold, both fractions with positive denominators
\* mutant: ratio > threshold
RatioAtLeast_Strict(r, t) == r[1] * t[2] > t[1] * r[2]

RatioAtLeast(r, t) == r[1] * t[2] >= t[1] * r[2]

-----------------------------------------------------------------------------
(* filter_results (evaluate.py).  Positions are 1-based here.              *)

\* policy_groups: the distinct r.get('policy_id') in order of first appearance
RECURSIVE GroupKeys(_, _)
GroupKeys(rs, idx) ==
    IF idx > Len(rs) THEN <<>>
    ELSE LET pid == Get(rs[idx], "policy_id")
         IN IF \E h \in 1..(idx - 1) : Get(rs[h], "policy_id") = pid
            THEN GroupKeys(rs, idx + 1)
            ELSE <<pid>> \o GroupKeys(rs, idx + 1)

\* mutant: no grouping, every group holds every position
GroupIndices_AllRecords(rs, pid, idx) == [h \in 1..Len(rs) |-> h]

\* policy_groups[pid]: the positions of the group, ascending
RECURSIVE GroupIndices(_, _, _)
GroupIndices(rs, pid, idx) ==
    IF idx > Len(rs) THEN <<>>
    ELSE IF Get(rs[idx], "policy_id") = pid
         THEN <<idx>> \o GroupIndices(rs, pid, idx + 1)
         ELSE GroupIndices(rs, pid, idx + 1)

\* mutant: the gold labels are not compared
Conflict_IgnoreGold(r_i, r_j, t) ==
    RatioAtLeast(Ratio(PyStr(r_i["span"]), PyStr(r_j["span"])), t)

\* mutant: the predictions are compared in place of the gold labels
Conflict_OnPred(r_i, r_j, t) ==
    /\ Get(r_i, "pred") # Get(r_j, "pred")
    /\ RatioAtLeast(Ratio(PyStr(r_i["span"]), PyStr(r_j["span"])), t)

\* the test of one pair: gold_i != gold_j and ratio(str(span_i), str(span_j)) >= threshold
Conflict(r_i, r_j, t) ==
    /\ r_i["gold"] # r_j["gold"]
    /\ RatioAtLeast(Ratio(PyStr(r_i["span"]), PyStr(r_j["span"])), t)

\* mutant: the loops over a group stop at its first conflicting pair
RECURSIVE ScanGroup_EarlyExit(_, _, _, _, _, _)
ScanGroup_EarlyExit(rs, indices, i, j, t, acc) ==
    IF i > Len(indices) THEN acc
    ELSE IF j > Len(indices) THEN ScanGroup_EarlyExit(rs, indices, i + 1, i + 2, t, acc)
    ELSE LET idx_i == indices[i]
             idx_j == indices[j]
             r_i == rs[idx_i]
             r_j == rs[idx_j]
         IN IF ~(HasKey(r_i, "span") /\ HasKey(r_j, "span")
                 /\ HasKey(r_i, "gold") /\ HasKey(r_j, "gold"))
            THEN [err |-> TRUE, drop |-> acc.drop]
            ELSE IF Conflict(r_i, r_j, t)
                 THEN [err |-> FALSE, drop |-> acc.drop \cup {idx_i, idx_j}]
                 ELSE ScanGroup_EarlyExit(rs, indices, i, j + 1, t, acc)

\* the two nested loops over one group, from the pair (i, j) on; acc is
\* [err, drop]: err when r['span'] or r['gold'] raised KeyError, drop is to_drop
RECURSIVE ScanGroup(_, _, _, _, _, _)
ScanGroup(rs, indices, i, j, t, acc) ==
    IF i > Len(indices) THEN acc
    ELSE IF j > Len(indices) THEN ScanGroup(rs, indices, i + 1, i + 2, t, acc)
    ELSE LET idx_i == indices[i]
             idx_j == indices[j]
             r_i == rs[idx_i]
             r_j == rs[idx_j]
         IN IF ~(HasKey(r_i, "span") /\ HasKey(r_j, "span")
                 /\ HasKey(r_i, "gold") /\ HasKey(r_j, "gold"))
            THEN [err |-> TRUE, drop |-> acc.drop]
            ELSE ScanGroup(rs, indices, i, j + 1, t,
                     IF Conflict(r_i, r_j, t)
                     THEN [err |-> FALSE, drop |-> acc.drop \cup {idx_i, idx_j}]
                     ELSE acc)

\* the loop over policy_groups.items()
RECURSIVE ScanGroups(_, _, _, _, _)
ScanGroups(rs, keys, g, t, acc) ==
    IF g > Len(keys) \/ acc.err THEN acc
    ELSE ScanGroups(rs, keys, g + 1, t,
             ScanGroup(rs, GroupIndices(rs, keys[g], 1), 1, 2, t, acc))

\* mutant: the records of to_drop are the ones returned
Keep_Inverted(rs, drop, idx) ==
    LET at == SelectSeq([h \in 1..Len(rs) |-> h], LAMBDA h : h \in drop)
    IN [k \in DOMAIN at |-> rs[at[k]]]

\* [r for idx, r in enumerate(results) if idx not in to_drop]
RECURSIVE Keep(_, _, _)
Keep(rs, drop, idx) ==
    IF idx > Len(rs) THEN <<>>
    ELSE IF idx \in drop THEN Keep(rs, drop, idx + 1)
         ELSE <<rs[idx]>> \o Keep(rs, drop, idx + 1)

\* filter_results(results, threshold): [err, drop, out]
FilterResults(rs, t) ==
    LET acc == ScanGroups(rs, GroupKeys(rs, 1), 1, t, [err |-> FALSE, drop |-> {}])
    IN IF acc.err THEN [err |-> TRUE, drop |-> {}, out |-> <<>>]
       ELSE [err |-> FALSE, drop |-> acc.drop, out |-> Keep(rs, acc.drop, 1)]

-----------------------------------------------------------------------------
(* combine_results (combinator.py).  A dict is a sequence of entries       *)
(* [id, recs] with distinct ids, in insertion order.                        *)

Models == {"m1", "m2"}

Ids(d) == {d[e].id : e \in DOMAIN d}

\* d[model_id], for a model_id in d
Lookup(d, model_id) == d[CHOOSE e \in DOMAIN d : d[e].id = model_id].recs

\* mutant: the key leaves out gold and pred
Key_SpanOnly(r) == <<Get(r, "policy_id"), Get(r, "span")>>

\* the identity key (r.get('policy_id'), r.get('span'), r.get('gold'), r.get('pred'))
Key(r) == <<Get(r, "policy_id"), Get(r, "span"), Get(r, "gold"), Get(r, "pred")>>

Keys(list) == {Key(list[h]) : h \in DOMAIN list}

\* mutant: a later record with a known key replaces the kept one (last seen wins)
RECURSIVE AppendNew_LastWins(_, _, _, _)
AppendNew_LastWins(list, seen, records, idx) ==
    IF idx > Len(records) THEN list
    ELSE LET r == records[idx]
         IN IF Key(r) \notin seen
            THEN AppendNew_LastWins(Append(list, r), seen \cup {Key(r)}, records, idx + 1)
            ELSE AppendNew_LastWins(
                     [h \in DOMAIN list |-> IF Key(list[h]) = Key(r) THEN r ELSE list[h]],
                     seen, records, idx + 1)

\* mutant: seen.add(key) is forgotten
RECURSIVE AppendNew_NoSeenUpdate(_, _, _, _)
AppendNew_NoSeenUpdate(list, seen, records, idx) ==
    IF idx > Len(records) THEN list
    ELSE LET r == records[idx]
         IN IF Key(r) \notin seen
            THEN AppendNew_NoSeenUpdate(Append(list, r), seen, records, idx + 1)
            ELSE AppendNew_NoSeenUpdate(list, seen, records, idx + 1)

\* mutant: a record without one of the four key fields is skipped
RECURSIVE AppendNew_SkipIncomplete(_, _, _, _)
AppendNew_SkipIncomplete(list, seen, records, idx) ==
    IF idx > Len(records) THEN list
    ELSE LET r == records[idx]
         IN IF Key(r) \notin seen
               /\ {"policy_id", "span", "gold", "pred"} \subseteq DOMAIN r
            THEN AppendNew_SkipIncomplete(Append(list, r), seen \cup {Key(r)},
                                          records, idx + 1)
            ELSE AppendNew_SkipIncomplete(list, seen, records, idx + 1)

\* the loop over one model's records: append r unless its key is in seen
RECURSIVE AppendNew(_, _, _, _)
AppendNew(list, seen, records, idx) ==
    IF idx > Len(records) THEN list
    ELSE LET r == records[idx]
         IN IF Key(r) \notin seen
            THEN AppendNew(Append(list, r), seen \cup {Key(r)}, records, idx + 1)
            ELSE AppendNew(list, seen, records, idx + 1)

\* mutant: seen starts empty instead of holding the keys already combined
MergeModel_FreshSeen(comb, model_id, records) ==
    LET c1 == IF model_id \in Ids(comb) THEN comb
              ELSE Append(comb, [id |-> model_id, recs |-> <<>>])
    IN [e \in DOMAIN c1 |->
           IF c1[e].id = model_id
           THEN [id |-> model_id, recs |-> AppendNew(c1[e].recs, {}, records, 1)]
           ELSE c1[e]]

\* mutant: one seen set for all models
MergeModel_GlobalSeen(comb, model_id, records) ==
    LET c1 == IF model_id \in Ids(comb) THEN comb
              ELSE Append(comb, [id |-> model_id, recs |-> <<>>])
        seen == UNION {Keys(c1[e].recs) : e \in DOMAIN c1}
    IN [e \in DOMAIN c1 |->
           IF c1[e].id = model_id
           THEN [id |-> model_id, recs |-> AppendNew(c1[e].recs, seen, records, 1)]
           ELSE c1[e]]

\* one (model_id, records) item of a file: create the entry when it is new, build
\* seen from the records already combined, then append the new ones
MergeModel(comb, model_id, records) ==
    LET c1 == IF model_id \in Ids(comb) THEN comb
              ELSE Append(comb, [id |-> model_id, recs |-> <<>>])
        seen == Keys(Lookup(c1, model_id))
    IN [e \in DOMAIN c1 |->
           IF c1[e].id = model_id
           THEN [id |-> model_id, recs |-> AppendNew(c1[e].recs, seen, records, 1)]
           ELSE c1[e]]

\* the loop over data.items() of one file
RECURSIVE MergeData(_, _, _)
MergeData(comb, data, e) ==
    IF e > Len(data) THEN comb
    ELSE MergeData(MergeModel(comb, data[e].id, data[e].recs), data, e + 1)

\* combine_results(input_paths) as a whole, for files that all load
RECURSIVE CombineFrom(_, _, _)
CombineFrom(comb, files, idx) ==
    IF idx > Len(files) THEN comb
    ELSE CombineFrom(MergeData(comb, files[idx], 1), files, idx + 1)

CombineResults(files) == CombineFrom(<<>>, files, 1)

\* history: what has been read for each model, and whether the model appeared
RECURSIVE Feed(_, _, _)
Feed(h, data, e) ==
    IF e > Len(data) THEN h
    ELSE Feed([h EXCEPT ![data[e].id] =
                  [present |-> TRUE, recs |-> @.recs \o data[e].recs]], data, e + 1)

NothingFed == [m \in Models |-> [present |-> FALSE, recs |-> <<>>]]

NotWritten == [exists |-> FALSE, content |-> <<>>]

-----------------------------------------------------------------------------
(* Inputs the runs draw from.                                              *)

MaxFedRecs == 3     \* records read by one run of combine_results, over all its files
MaxPairRecs == 4    \* records the two files of a planned run hold together
MaxResults == 3     \* records in the list handed to filter_results

X == PyS(<<"X">>)
Y == PyS(<<"Y">>)

\* Records for combine_results: a full record, the same key with an extra field,
\* and records without gold (same other fields, another pred, an extra field).
Full == [policy_id |-> PyInt(1), span |-> PyS(<<"s">>), gold |-> X, pred |-> X]
FullExtra == [policy_id |-> PyInt(1), span |-> PyS(<<"s">>), gold |-> X, pred |-> X,
              run |-> PyInt(2)]
NoGold == [policy_id |-> PyInt(1), span |-> PyS(<<"s">>), pred |-> X]
NoGoldY == [policy_id |-> PyInt(1), span |-> PyS(<<"s">>), pred |-> Y]
NoGoldExtra == [policy_id |-> PyInt(1), span |-> PyS(<<"s">>), pred |-> X,
                run |-> PyInt(2)]

MergePool == {Full, FullExtra, NoGold, NoGoldY, NoGoldExtra}
PairPool == {Full, FullExtra, NoGold}

RecLists(pool, k) == UNION {[1..n -> pool] : n \in 0..k}

ModelOrders == {<<"m1", "m2">>, <<"m2", "m1">>}

\* the files (parsed JSON objects) that hold at most b records from pool
Files(pool, b) ==
    {<<>>}
    \cup {<<[id |-> m, recs |-> l]>> : m \in Models, l \in RecLists(pool, b)}
    \cup UNION {UNION {{<<[id |-> o[1], recs |-> l1], [id |-> o[2], recs |-> l2]>> :
                          l2 \in RecLists(pool, b - Len(l1))} :
                      l1 \in RecLists(pool, b)} :
                 o \in ModelOrders}

RECURSIVE Size(_, _)
Size(data, e) == IF e > Len(data) THEN 0 ELSE Len(data[e].recs) + Size(data, e + 1)

\* Records for filter_results: in policy 1 every span with every gold; then another
\* policy, no policy_id, and records without span or without gold.
Spans == {PyS(<<"a", "b", "a">>), PyS(<<"b", "c", "a">>), PyS(<<>>),
          PyInt(7), PyS(<<"7">>)}

FilterPool ==
    {[policy_id |-> PyInt(1), span |-> sp, gold |-> g, pred |-> X] :
         sp \in Spans, g \in {X, Y}}
    \cup {[policy_id |-> PyInt(2), span |-> PyS(<<"a", "b", "a">>), gold |-> Y, pred |-> X],
          [span |-> PyS(<<"a", "b", "a">>), gold |-> Y, pred |-> X],
          [span |-> PyS(<<"b", "c", "a">>), gold |-> X, pred |-> X],
          [policy_id |-> PyInt(1), gold |-> X, pred |-> X],
          [policy_id |-> PyInt(1), span |-> PyS(<<"a", "b", "a">>), pred |-> X]}

\* thresholds 0, 0.25, 0.5, 0.75 (the default) and 1
Thresholds == {<<q, 4>> : q \in 0..4}

NotCalled == [err |-> FALSE, drop |-> {}, out |-> <<>>]

-----------------------------------------------------------------------------
(* combine_results, step by step.                                          *)

FedCount == Len(fed["m1"].recs) + Len(fed["m2"].recs)

MergeIdle ==
    /\ fed = NothingFed /\ combined = <<>> /\ output_path = FALSE
    /\ written = NotWritten /\ pending = <<>> /\ inputs = <<>>

FilterIdle == results = <<>> /\ threshold = <<1, 1>> /\ filtered = NotCalled

ReportIdle ==
    /\ total = 0 /\ dist = <<>> /\ metrics = <<>>
    /\ metrics1 = <<>> /\ metrics2 = <<>> /\ printed = <<>>

RunIdle == args_filter = FALSE /\ first_model = ""

InferIdle ==
    /\ model_list = <<>> /\ policies = <<>> /\ workers = <<>> /\ lock = 0
    /\ all_results = <<>> /\ dump = NotWritten /\ joined = 0

\* one turn of `for path in input_paths`: the file loads as data and is merged
ReadFile(data) ==
    /\ pc = "merging"
    /\ combined' = MergeData(combined, data, 1)
    /\ fed' = Feed(fed, data, 1)
    /\ UNCHANGED <<pc, output_path, written>>

\* after the loop: write the combined dict when a destination was given, return
WriteOutput ==
    /\ pc = "merging"
    /\ written' = IF output_path THEN [exists |-> TRUE, content |-> combined]
                  ELSE written
    /\ pc' = "done"
    /\ UNCHANGED <<fed, combined, output_path>>

\* any file the next path may hold
StreamFile ==
    /\ \E data \in Files(MergePool, MaxFedRecs - FedCount) : ReadFile(data)
    /\ UNCHANGED <<pending, inputs>>
    /\ UNCHANGED filterVars
    /\ UNCHANGED runVars
    /\ UNCHANGED inferVars
    /\ UNCHANGED reportVars

\* open() or json.load() raises: combine_results ends there
LoadFails ==
    /\ pc = "merging"
    /\ pc' = "failed"
    /\ UNCHANGED mergeVars
    /\ UNCHANGED filterVars
    /\ UNCHANGED runVars
    /\ UNCHANGED inferVars
    /\ UNCHANGED reportVars

StreamEnd ==
    /\ WriteOutput
    /\ UNCHANGED <<pending, inputs>>
    /\ UNCHANGED filterVars
    /\ UNCHANGED runVars
    /\ UNCHANGED inferVars
    /\ UNCHANGED reportVars

InitMerge ==
    /\ pc = "merging"
    /\ fed = NothingFed /\ combined = <<>> /\ output_path \in BOOLEAN
    /\ written = NotWritten /\ pending = <<>> /\ inputs = <<>>
    /\ FilterIdle
    /\ RunIdle
    /\ InferIdle
    /\ ReportIdle

NextMerge == StreamFile \/ LoadFails \/ StreamEnd

SpecMerge == InitMerge /\ [][NextMerge]_vars

\* the planned run over two given files that hold at most MaxPairRecs records together
PlannedFile ==
    /\ pending # <<>>
    /\ ReadFile(Head(pending))
    /\ pending' = Tail(pending)
    /\ inputs' = Append(inputs, Head(pending))
    /\ UNCHANGED filterVars
    /\ UNCHANGED runVars
    /\ UNCHANGED inferVars
    /\ UNCHANGED reportVars

PlannedEnd ==
    /\ pending = <<>>
    /\ WriteOutput
    /\ UNCHANGED <<pending, inputs>>
    /\ UNCHANGED filterVars
    /\ UNCHANGED runVars
    /\ UNCHANGED inferVars
    /\ UNCHANGED reportVars

InitMergePair ==
    /\ pc = "merging"
    /\ fed = NothingFed /\ combined = <<>> /\ output_path = TRUE
    /\ written = NotWritten /\ inputs = <<>>
    /\ \E A \in Files(PairPool, MaxPairRecs) :
           \E B \in Files(PairPool, MaxPairRecs - Size(A, 1)) : pending = <<A, B>>
    /\ FilterIdle
    /\ RunIdle
    /\ InferIdle
    /\ ReportIdle

NextMergePair == PlannedFile \/ PlannedEnd

SpecMergePair == InitMergePair /\ [][NextMergePair]_vars

-----------------------------------------------------------------------------
(* filter_results, one call.                                               *)

FilterCall ==
    /\ pc = "call"
    /\ filtered' = FilterResults(results, threshold)
    /\ pc' = IF filtered'.err THEN "raised" ELSE "returned"
    /\ UNCHANGED <<results, threshold>>
    /\ UNCHANGED mergeVars
    /\ UNCHANGED reportVars
    /\ UNCHANGED runVars
    /\ UNCHANGED inferVars

InitFilter ==
    /\ pc = "call"
    /\ results \in RecLists(FilterPool, MaxResults)
    /\ threshold \in Thresholds
    /\ filtered = NotCalled
    /\ MergeIdle
    /\ ReportIdle
    /\ RunIdle
    /\ InferIdle

NextFilter == FilterCall

SpecFilter == InitFilter /\ [][NextFilter]_vars

-----------------------------------------------------------------------------
(* Claims about combine_results.                                           *)

KeyFields == {"policy_id", "span", "gold", "pred"}

\* the value a key field counts as: its value, or the placeholder when it is absent
FieldValue(r, f) == IF f \in DOMAIN r THEN r[f] ELSE PyNone

\* two records carry the same 4-tuple
SameIdentity(r1, r2) == \A f \in KeyFields : FieldValue(r1, f) = FieldValue(r2, f)

Identity(r) == [f \in KeyFields |-> FieldValue(r, f)]

Identities(list) == {Identity(list[h]) : h \in DOMAIN list}

\* the positions of list whose 4-tuple did not occur at an earlier position
FirstPositions(list) ==
    {h \in DOMAIN list : \A g \in 1..(h - 1) : ~SameIdentity(list[g], list[h])}

\* the subsequence of list at the positions in keep
RECURSIVE SubSeqAt(_, _, _)
SubSeqAt(list, keep, idx) ==
    IF idx > Len(list) THEN <<>>
    ELSE (IF idx \in keep THEN <<list[idx]>> ELSE <<>>) \o SubSeqAt(list, keep, idx + 1)

FirstOccurrences(list) == SubSeqAt(list, FirstPositions(list), 1)

\* C1: per model, no two output records carry the same 4-tuple, and every 4-tuple
\* read for the model is carried by exactly one output record.
C1_DedupPerModel ==
    \A m \in Models :
        fed[m].recs # <<>> =>
            /\ m \in Ids(combined)
            /\ LET out == Lookup(combined, m)
               IN /\ \A h, k \in DOMAIN out :
                         SameIdentity(out[h], out[k]) => h = k
                  /\ \A g \in DOMAIN fed[m].recs :
                         Cardinality({h \in DOMAIN out :
                                         SameIdentity(out[h], fed[m].recs[g])}) = 1
                  /\ \A h \in DOMAIN out :
                         \E g \in DOMAIN fed[m].recs : out[h] = fed[m].recs[g]

\* C1 witness: a finished merge that read three records for a model, two of them
\* with the same 4-tuple, and returned two.
C1_Witness ==
    /\ pc = "done"
    /\ \E m \in Ids(combined) :
           /\ Len(fed[m].recs) = 3
           /\ Len(Lookup(combined, m)) = 2

\* C2: a model's output list is the records at the first appearance of each
\* 4-tuple, in reading order, each exactly as it was read (extra fields included).
C2_FirstSeenOrder ==
    \A m \in Ids(combined) : Lookup(combined, m) = FirstOccurrences(fed[m].recs)

\* C2 witness: a finished merge where a later record repeats an earlier 4-tuple
\* with other extra fields, and a record with a new 4-tuple follows it.
C2_Witness ==
    /\ pc = "done"
    /\ \E m \in Ids(combined) :
           LET l == fed[m].recs
           IN /\ Len(l) = 3
              /\ SameIdentity(l[1], l[2]) /\ l[1] # l[2]
              /\ ~SameIdentity(l[1], l[3])

\* C5: the output holds exactly the models that appeared in an input, and each
\* model's list holds one record per 4-tuple read for that model, whatever the
\* other model holds.
C5_PerModelUnion ==
    /\ Ids(combined) = {m \in Models : fed[m].present}
    /\ Len(combined) = Cardinality(Ids(combined))
    /\ \A m \in Ids(combined) :
           /\ Identities(Lookup(combined, m)) = Identities(fed[m].recs)
           /\ Len(Lookup(combined, m)) = Cardinality(Identities(fed[m].recs))

\* C5 witness: a finished merge whose two models hold a record with the same
\* 4-tuple each.
C5_Witness ==
    /\ pc = "done"
    /\ Ids(combined) = Models
    /\ Identities(Lookup(combined, "m1")) \cap Identities(Lookup(combined, "m2")) # {}

\* the output records of model m that carry the 4-tuple of r1 or of r2
Survivors(m, r1, r2) ==
    LET out == Lookup(combined, m)
    IN {h \in DOMAIN out : SameIdentity(out[h], r1) \/ SameIdentity(out[h], r2)}

\* C6: of two records read for a model that both lack a key field, one survives
\* when their other key fields are equal and both survive otherwise; a record
\* that lacks a field and one that has a value there both survive.
C6_MissingIsOneValue ==
    \A m \in Ids(combined) :
        \A g, h \in DOMAIN fed[m].recs :
            LET r1 == fed[m].recs[g]
                r2 == fed[m].recs[h]
                n == Cardinality(Survivors(m, r1, r2))
            IN \A f \in KeyFields :
                   /\ (f \notin DOMAIN r1 /\ f \notin DOMAIN r2) =>
                          /\ n \in {1, 2}
                          /\ n = 1 <=> \A f2 \in KeyFields \ {f} :
                                          FieldValue(r1, f2) = FieldValue(r2, f2)
                   /\ (f \notin DOMAIN r1 /\ f \in DOMAIN r2 /\ r2[f] # PyNone) => n = 2

\* C6 witness: a finished merge that read, for one model, two records without
\* gold that agree elsewhere and one without gold that has another pred.
C6_Witness ==
    /\ pc = "done"
    /\ \E m \in Ids(combined) :
           {NoGold, NoGoldExtra, NoGoldY} \subseteq
               {fed[m].recs[g] : g \in DOMAIN fed[m].recs}

-----------------------------------------------------------------------------
(* Claims about combine_results over two given files.                      *)

\* two dicts are equal: the same ids, and the same list under each
DictEq(d1, d2) ==
    /\ Ids(d1) = Ids(d2)
    /\ \A m \in Ids(d1) : Lookup(d1, m) = Lookup(d2, m)

\* no list of the dict holds two records with the same 4-tuple
NoRepeatedIdentity(d) ==
    \A e \in DOMAIN d : FirstPositions(d[e].recs) = DOMAIN d[e].recs

RecordSet(list) == {list[h] : h \in DOMAIN list}

Swapped == CombineResults(<<inputs[2], inputs[1]>>)

PairDone == pc = "done" /\ Len(inputs) = 2

\* C3 as claimed: merging [R, R] returns a dict equal to R.
C3_IdempotentAsClaimed ==
    (PairDone /\ inputs[1] = inputs[2]) => DictEq(combined, inputs[1])

\* C3 amended: merging [R, R] returns R's models in R's order, each with the first
\* record of every 4-tuple of R's list in R's order; this is R itself when no
\* list of R holds two records with the same 4-tuple.
C3_Idempotent ==
    (PairDone /\ inputs[1] = inputs[2]) =>
        LET R == inputs[1]
        IN /\ Len(combined) = Len(R)
           /\ \A e \in DOMAIN R :
                  /\ combined[e].id = R[e].id
                  /\ combined[e].recs = FirstOccurrences(R[e].recs)
           /\ NoRepeatedIdentity(R) => combined = R
           /\ written = [exists |-> TRUE, content |-> combined]

\* C3 witness: a finished merge of [R, R] where a list of R holds two records
\* with different 4-tuples.
C3_Witness ==
    /\ PairDone /\ inputs[1] = inputs[2]
    /\ NoRepeatedIdentity(inputs[1])
    /\ \E e \in DOMAIN inputs[1] : Len(inputs[1][e].recs) = 2

\* C4 as claimed: merging [A, B] and [B, A] gives the same set of records for
\* every model.
C4_CommutativeAsClaimed ==
    PairDone =>
        /\ Ids(combined) = Ids(Swapped)
        /\ \A m \in Ids(combined) :
               RecordSet(Lookup(combined, m)) = RecordSet(Lookup(Swapped, m))

\* C4 amended: merging [A, B] and [B, A] gives the same models and, for every
\* model, the same set of 4-tuples and the same number of records.
C4_Commutative ==
    PairDone =>
        /\ Ids(combined) = Ids(Swapped)
        /\ \A m \in Ids(combined) :
               /\ Identities(Lookup(combined, m)) = Identities(Lookup(Swapped, m))
               /\ Len(Lookup(combined, m)) = Len(Lookup(Swapped, m))

\* C4 witness: a finished merge of two files that share a model and a 4-tuple
\* under it, one of them also holding a 4-tuple the other lacks.
C4_Witness ==
    /\ PairDone
    /\ \E m \in Ids(inputs[1]) \cap Ids(inputs[2]) :
           LET k1 == Identities(Lookup(inputs[1], m))
               k2 == Identities(Lookup(inputs[2], m))
           IN k1 \cap k2 # {} /\ k1 # k2

-----------------------------------------------------------------------------
(* Claims about filter_results.                                            *)

SamePolicy(r1, r2) == FieldValue(r1, "policy_id") = FieldValue(r2, "policy_id")

\* the pair (i, j), i before j, is a conflict at threshold t
Disagree(rs, i, j, t) ==
    /\ i < j
    /\ SamePolicy(rs[i], rs[j])
    /\ rs[i]["gold"] # rs[j]["gold"]
    /\ LET r == Ratio(PyStr(rs[i]["span"]), PyStr(rs[j]["span"]))
       IN r[1] * t[2] >= t[1] * r[2]

\* the positions that are a member of some conflicting pair
Marked(rs, t) ==
    {i \in DOMAIN rs : \E j \in DOMAIN rs : Disagree(rs, i, j, t) \/ Disagree(rs, j, i, t)}

Reverse(list) == [h \in DOMAIN list |-> list[Len(list) + 1 - h]]

\* C7: a call that returns gives the input without the members of conflicting
\* pairs, in the input's order.
C7_DropsExactlyConflicts ==
    pc = "returned" =>
        /\ filtered.drop = Marked(results, threshold)
        /\ filtered.out = SubSeqAt(results, DOMAIN results \ Marked(results, threshold), 1)

\* C7 witness: a call on three records that dropped the first and the last and
\* returned the middle one.
C7_Witness ==
    /\ pc = "returned"
    /\ Len(results) = 3
    /\ filtered.drop = {1, 3}
    /\ filtered.out = <<results[2]>>

\* C8 as claimed: the reversed input gives the reversed output.
C8_ReversalSymmetric ==
    pc = "returned" =>
        LET rev == FilterResults(Reverse(results), threshold)
        IN ~rev.err /\ rev.out = Reverse(filtered.out)

\* C9: a threshold at or below the one used drops at least the same positions
\* and returns at most as many records.
C9_Monotone ==
    pc = "returned" =>
        \A t1 \in Thresholds :
            t1[1] * threshold[2] <= threshold[1] * t1[2] =>
                LET low == FilterResults(results, t1)
                IN /\ ~low.err
                   /\ filtered.drop \subseteq low.drop
                   /\ Len(low.out) <= Len(filtered.out)

\* C9 witness: a call that dropped some records, where a lower threshold drops more.
C9_Witness ==
    /\ pc = "returned"
    /\ filtered.drop # {}
    /\ \E t1 \in Thresholds :
           /\ t1[1] * threshold[2] < threshold[1] * t1[2]
           /\ FilterResults(results, t1).drop # filtered.drop

\* two records with identical spans and identical gold labels, both fields present
Twins(r1, r2) ==
    /\ {"span", "gold"} \subseteq DOMAIN r1 /\ {"span", "gold"} \subseteq DOMAIN r2
    /\ r1["span"] = r2["span"]
    /\ r1["gold"] = r2["gold"]

\* C10 as claimed: records with identical spans and identical gold labels are
\* never dropped.
C10_TwinsNeverDropped ==
    pc = "returned" =>
        \A i, j \in DOMAIN results :
            (i # j /\ Twins(results[i], results[j])) =>
                i \notin filtered.drop /\ j \notin filtered.drop

\* C10 amended: a record is dropped only if its policy group holds a record with
\* a different gold label; records with the same gold label never remove each
\* other, so a group whose gold labels all agree loses nothing.
C10_DropNeedsOtherGold ==
    pc = "returned" =>
        \A i \in filtered.drop :
            \E j \in DOMAIN results :
                /\ SamePolicy(results[i], results[j])
                /\ results[i]["gold"] # results[j]["gold"]

\* C10 witness: at threshold 0, two records of one policy with identical spans
\* and gold labels are returned, next to a record with another gold label in
\* another policy.
C10_Witness ==
    /\ pc = "returned"
    /\ threshold[1] = 0
    /\ Len(results) = 3
    /\ filtered.drop = {}
    /\ \E i, j, k \in DOMAIN results :
           /\ i # j
           /\ Twins(results[i], results[j])
           /\ SamePolicy(results[i], results[j])
           /\ HasKey(results[k], "gold")
           /\ results[k]["gold"] # results[i]["gold"]

\* the positions of the records that share the policy group of position i
GroupOf(rs, i) == {j \in DOMAIN rs : SamePolicy(rs[i], rs[j])}

\* C11: at threshold 0 every record whose policy group holds a record with
\* another gold label is dropped; at threshold 1 a record is dropped only if its
\* group holds a record with another gold label whose span reads the same,
\* character for character.
C11_ThresholdExtremes ==
    pc = "returned" =>
        /\ threshold[1] = 0 =>
               \A i \in DOMAIN results :
                   (\E j \in GroupOf(results, i) \ {i} :
                        results[j]["gold"] # results[i]["gold"])
                       => i \in filtered.drop
        /\ threshold[1] = threshold[2] =>
               \A i \in filtered.drop :
                   \E j \in GroupOf(results, i) \ {i} :
                       /\ results[j]["gold"] # results[i]["gold"]
                       /\ PyStr(results[j]["span"]) = PyStr(results[i]["span"])

\* C11 witness: at threshold 0 a call dropped two records of one group whose
\* spans share no character.
C11_Witness ==
    /\ pc = "returned"
    /\ threshold[1] = 0
    /\ \E i, j \in filtered.drop :
           /\ i # j
           /\ j \in GroupOf(results, i)
           /\ Ratio(PyStr(results[i]["span"]), PyStr(results[j]["span"]))[1] = 0

\* C12: a record is dropped exactly when its own policy group holds the other
\* half of a conflicting pair, so records of another policy never remove it;
\* the records without policy_id are one group; a record alone in its group and
\* an empty input lose nothing.
C12_OnlyWithinGroup ==
    pc = "returned" =>
        /\ \A i \in DOMAIN results :
               i \in filtered.drop <=>
                   \E j \in GroupOf(results, i) :
                       Disagree(results, i, j, threshold) \/ Disagree(results, j, i, threshold)
        /\ \A i, j \in DOMAIN results :
               (/\ i # j
                /\ ~HasKey(results[i], "policy_id") /\ ~HasKey(results[j], "policy_id")
                /\ results[i]["gold"] # results[j]["gold"]
                /\ threshold[1] = 0)
                   => {i, j} \subseteq filtered.drop
        /\ \A i \in DOMAIN results : GroupOf(results, i) = {i} => i \notin filtered.drop
        /\ results = <<>> => filtered.out = <<>>

\* C12 witness: at threshold 0 the two records without policy_id were dropped
\* together, and a record of policy 1 with the span of the first and another
\* gold label was returned.
C12_Witness ==
    /\ pc = "returned"
    /\ threshold[1] = 0
    /\ Len(results) = 3
    /\ ~HasKey(results[1], "policy_id") /\ ~HasKey(results[2], "policy_id")
    /\ {"policy_id", "span", "gold"} \subseteq DOMAIN results[3]
    /\ results[3]["span"] = results[1]["span"]
    /\ results[3]["gold"] # results[1]["gold"]
    /\ filtered.drop = {1, 2}
    /\ filtered.out = <<results[3]>>

-----------------------------------------------------------------------------
(* The taxonomy (promt_templates.py) and sklearn's classification_report as *)
(* evaluate calls it: labels=FULL_LABEL_NAMES, zero_division=0,             *)
(* output_dict=True.  A score is a fraction <<num, den>> with den > 0; a    *)
(* report is a dict: a sequence of entries [key, scores] in insertion order.*)

FULL_LABEL_NAMES ==
    << "Updated Privacy Policy",
       "Categories of Personal Information Sold",
       "Categories of Personal Information Shared / Disclosed",
       "Categories of Personal Information Collected",
       "Description of Right to Delete",
       "Description of Right to Correct Information",
       "Description of Right to Know PI Collected",
       "Description of Right to Know PI sold / shared",
       "Description of Right to Opt-out of sale of PI",
       "Description of Right to Limit use of PI",
       "Description of Right to Non-discrimination on exercising rights",
       "Methods to exercise rights" >>

\* the Python string of a label name; the name is kept whole, as labels are
\* only ever compared for equality
Label(name) == [t |-> "str", s |-> <<name>>, n |-> 0]

Range(seq) == {seq[h] : h \in DOMAIN seq}

\* mutant: a zero denominator gives 1 (zero_division=1)
PrfDivide_One(num, den) == IF den = 0 THEN <<1, 1>> ELSE <<num, den>>

\* _prf_divide with zero_division=0: num / den, and 0 where den is 0
PrfDivide(num, den) == IF den = 0 THEN <<0, 1>> ELSE <<num, den>>

AddFrac(a, b) == <<a[1] * b[2] + b[1] * a[2], a[2] * b[2]>>

RECURSIVE SumFrac(_, _)
SumFrac(fs, idx) == IF idx > Len(fs) THEN <<0, 1>> ELSE AddFrac(fs[idx], SumFrac(fs, idx + 1))

RECURSIVE SumInt(_, _)
SumInt(ns, idx) == IF idx > Len(ns) THEN 0 ELSE ns[idx] + SumInt(ns, idx + 1)

\* the counts of multilabel_confusion_matrix for one label
TpSum(y_true, y_pred, l) ==
    Cardinality({h \in DOMAIN y_true : y_true[h] = l /\ y_pred[h] = l})
PredSum(y_pred, l) == Cardinality({h \in DOMAIN y_pred : y_pred[h] = l})
TrueSum(y_true, l) == Cardinality({h \in DOMAIN y_true : y_true[h] = l})

\* mutant: precision is taken over the gold instances
Scores_PrecisionOverGold(tp, ps, ts) ==
    [precision |-> PrfDivide(tp, ts), recall |-> PrfDivide(tp, ts),
     f1_score |-> PrfDivide(2 * tp, ts + ps), support |-> ts]

\* precision_recall_fscore_support from the sums tp, pred and true
Scores(tp, ps, ts) ==
    [precision |-> PrfDivide(tp, ps), recall |-> PrfDivide(tp, ts),
     f1_score |-> PrfDivide(2 * tp, ts + ps), support |-> ts]

\* mutant: the records with a value outside labels are left out of the counts
LabelRows_InsideOnly(y_true, y_pred) ==
    LET ls == {Label(FULL_LABEL_NAMES[k]) : k \in DOMAIN FULL_LABEL_NAMES}
        in == {h \in DOMAIN y_true : y_true[h] \in ls /\ y_pred[h] \in ls}
    IN [k \in DOMAIN FULL_LABEL_NAMES |->
           LET l == Label(FULL_LABEL_NAMES[k])
               tp == Cardinality({h \in in : y_true[h] = l /\ y_pred[h] = l})
           IN [key |-> FULL_LABEL_NAMES[k],
               scores |-> Scores(tp, Cardinality({h \in in : y_pred[h] = l}),
                                 Cardinality({h \in in : y_true[h] = l}))]]

\* average=None: one row per label of labels, in the order of labels
LabelRows(y_true, y_pred) ==
    [k \in DOMAIN FULL_LABEL_NAMES |->
        LET l == Label(FULL_LABEL_NAMES[k])
        IN [key |-> FULL_LABEL_NAMES[k],
            scores |-> Scores(TpSum(y_true, y_pred, l), PredSum(y_pred, l),
                              TrueSum(y_true, l))]]

\* average="micro": the scores of the sums over labels
MicroAvg(y_true, y_pred) ==
    LET ls == [k \in DOMAIN FULL_LABEL_NAMES |-> Label(FULL_LABEL_NAMES[k])]
    IN Scores(SumInt([k \in DOMAIN ls |-> TpSum(y_true, y_pred, ls[k])], 1),
              SumInt([k \in DOMAIN ls |-> PredSum(y_pred, ls[k])], 1),
              SumInt([k \in DOMAIN ls |-> TrueSum(y_true, ls[k])], 1))

\* mutant: the mean is taken over the labels that have gold instances
MacroAvg_OverSeen(rows) ==
    LET seen == SelectSeq(rows, LAMBDA e : e.scores.support > 0)
        mean(f) == LET sum == SumFrac([k \in DOMAIN seen |-> seen[k].scores[f]], 1)
                   IN PrfDivide(sum[1], sum[2] * Len(seen))
    IN [precision |-> mean("precision"), recall |-> mean("recall"),
        f1_score |-> mean("f1_score"),
        support |-> SumInt([k \in DOMAIN rows |-> rows[k].scores.support], 1)]

\* average="macro": the plain mean of each score over the rows
MacroAvg(rows) ==
    LET mean(f) == LET sum == SumFrac([k \in DOMAIN rows |-> rows[k].scores[f]], 1)
                   IN <<sum[1], sum[2] * Len(rows)>>
    IN [precision |-> mean("precision"), recall |-> mean("recall"),
        f1_score |-> mean("f1_score"),
        support |-> SumInt([k \in DOMAIN rows |-> rows[k].scores.support], 1)]

\* average="weighted": the mean weighted by support, 0 when no label has support
WeightedAvg(rows) ==
    LET weights == SumInt([k \in DOMAIN rows |-> rows[k].scores.support], 1)
        mean(f) == LET sum == SumFrac([k \in DOMAIN rows |->
                                  <<rows[k].scores[f][1] * rows[k].scores.support,
                                    rows[k].scores[f][2]>>], 1)
                   IN PrfDivide(sum[1], sum[2] * weights)
    IN [precision |-> mean("precision"), recall |-> mean("recall"),
        f1_score |-> mean("f1_score"), support |-> weights]

\* the micro average is the accuracy when labels covers every value of y_true and y_pred
MicroIsAccuracy(y_true, y_pred) ==
    Range(y_true) \cup Range(y_pred) \subseteq {Label(FULL_LABEL_NAMES[k]) : k \in DOMAIN FULL_LABEL_NAMES}

\* mutant: the report holds the label rows and the macro average only
ClassificationReport_LabelsAndMacro(y_true, y_pred) ==
    LET rows == LabelRows(y_true, y_pred)
    IN rows \o <<[key |-> "macro avg", scores |-> MacroAvg(rows)]>>

\* classification_report(y_true, y_pred, labels=FULL_LABEL_NAMES, zero_division=0,
\* output_dict=True): the label rows, then accuracy or micro avg, macro avg,
\* weighted avg
ClassificationReport(y_true, y_pred) ==
    LET rows == LabelRows(y_true, y_pred)
        micro == MicroAvg(y_true, y_pred)
    IN rows
       \o <<IF MicroIsAccuracy(y_true, y_pred)
            THEN [key |-> "accuracy", scores |-> [value |-> micro.precision]]
            ELSE [key |-> "micro avg", scores |-> micro]>>
       \o <<[key |-> "macro avg", scores |-> MacroAvg(rows)],
            [key |-> "weighted avg", scores |-> WeightedAvg(rows)]>>

-----------------------------------------------------------------------------
(* evaluate, compute_distribution and print_report (evaluate.py).          *)

\* the loop over combined.items(), from entry e on: [err, metrics], err when
\* r["gold"] or r["pred"] raised KeyError
RECURSIVE EvaluateFrom(_, _, _)
EvaluateFrom(comb, e, acc) ==
    IF e > Len(comb) THEN [err |-> FALSE, metrics |-> acc]
    ELSE LET rs == comb[e].recs
         IN IF \E h \in DOMAIN rs : ~HasKey(rs[h], "gold") \/ ~HasKey(rs[h], "pred")
            THEN [err |-> TRUE, metrics |-> <<>>]
            ELSE EvaluateFrom(comb, e + 1,
                     Append(acc, [id |-> comb[e].id,
                                  rpt |-> ClassificationReport(
                                              [h \in DOMAIN rs |-> rs[h]["gold"]],
                                              [h \in DOMAIN rs |-> rs[h]["pred"]])]))

\* evaluate(combined)
Evaluate(comb) == EvaluateFrom(comb, 1, <<>>)

\* mutant: only the records with a taxonomy gold are counted in total
ComputeDistribution_TotalOfLabelled(rs) ==
    LET counts == [k \in DOMAIN FULL_LABEL_NAMES |->
                      [key |-> FULL_LABEL_NAMES[k],
                       count |-> Cardinality({h \in DOMAIN rs :
                                    Get(rs[h], "gold") = Label(FULL_LABEL_NAMES[k])})]]
    IN [total |-> SumInt([k \in DOMAIN counts |-> counts[k].count], 1), dist |-> counts]

\* compute_distribution(results): [total, dist], dist a dict label -> count
ComputeDistribution(rs) ==
    [total |-> Len(rs),
     dist |-> [k \in DOMAIN FULL_LABEL_NAMES |->
                  [key |-> FULL_LABEL_NAMES[k],
                   count |-> Cardinality({h \in DOMAIN rs :
                                Get(rs[h], "gold") = Label(FULL_LABEL_NAMES[k])})]]]

\* d.get(key, {}) on a report: the scores of the entry, or the empty dict
RptGet(rpt, key) ==
    IF \E k \in DOMAIN rpt : rpt[k].key = key
    THEN rpt[CHOOSE k \in DOMAIN rpt : rpt[k].key = key].scores
    ELSE <<>>

\* scores.get(f, 0)
ScoreGet(scores, f) == IF f \in DOMAIN scores THEN scores[f] ELSE <<0, 1>>

\* format(num / den, ".0f"): the nearest integer, a tie going to the even one
RoundHalfEven(num, den) ==
    LET q == num \div den
        rem == num % den
    IN IF 2 * rem < den THEN q
       ELSE IF 2 * rem > den THEN q + 1
       ELSE IF q % 2 = 0 THEN q ELSE q + 1

\* one table line of print_report: the three scores times 100, without decimals
ScoreLine(name, scores) ==
    [line |-> "scores", label |-> name,
     p |-> RoundHalfEven(ScoreGet(scores, "precision")[1] * 100, ScoreGet(scores, "precision")[2]),
     r |-> RoundHalfEven(ScoreGet(scores, "recall")[1] * 100, ScoreGet(scores, "recall")[2]),
     f |-> RoundHalfEven(ScoreGet(scores, "f1_score")[1] * 100, ScoreGet(scores, "f1_score")[2])]

\* the block print_report puts out for one model
ModelBlock(model_id, rpt) ==
    <<[line |-> "model", model_id |-> model_id], [line |-> "scores header"]>>
    \o [k \in DOMAIN FULL_LABEL_NAMES |->
           ScoreLine(FULL_LABEL_NAMES[k], RptGet(rpt, FULL_LABEL_NAMES[k]))]
    \o <<ScoreLine("Macro average", RptGet(rpt, "macro avg")), [line |-> "rule"]>>

\* the loop over metrics.items(), from entry e on
RECURSIVE ModelBlocks(_, _)
ModelBlocks(ms, e) ==
    IF e > Len(ms) THEN <<>>
    ELSE ModelBlock(ms[e].id, ms[e].rpt) \o ModelBlocks(ms, e + 1)

\* print_report(metrics, total, dist): the lines it prints
PrintReport(ms, n, d) ==
    <<[line |-> "total", total |-> n], [line |-> "distribution"], [line |-> "count header"]>>
    \o [k \in DOMAIN d |-> [line |-> "count", label |-> d[k].key, count |-> d[k].count]]
    \o <<[line |-> "blank"]>>
    \o ModelBlocks(ms, 1)

-----------------------------------------------------------------------------
(* evaluate.py run on one combined file, without --filter, --output and    *)
(* --use_docx: the distribution of the first model, evaluate, the report.  *)

MaxEvalRecs == 3    \* records in the combined file handed to evaluate.py

TaxA == Label(FULL_LABEL_NAMES[1])
TaxB == Label(FULL_LABEL_NAMES[12])

\* a record without pred
NoPred == [policy_id |-> PyInt(1), span |-> PyS(<<"s">>), gold |-> TaxA]

\* a record with the given gold and pred
Rec(g, p) == [policy_id |-> PyInt(1), span |-> PyS(<<"s">>), gold |-> g, pred |-> p]

\* Records for evaluate: gold and pred among two taxonomy labels and a value
\* outside the taxonomy, and records without gold or without pred.
EvalPool ==
    {Rec(TaxA, TaxA), Rec(TaxB, TaxB), Rec(TaxB, TaxA), Rec(TaxA, X), Rec(X, TaxA),
     Rec(X, X), NoGold, NoPred}

\* the combined files of one model, or of two models in the order m1, m2, that
\* hold at most b records from pool
EvalFiles(pool, b) ==
    {<<>>}
    \cup {<<[id |-> "m1", recs |-> l]>> : l \in RecLists(pool, b)}
    \cup UNION {{<<[id |-> "m1", recs |-> l1], [id |-> "m2", recs |-> l2]>> :
                    l2 \in RecLists(pool, b - Len(l1))} :
                l1 \in RecLists(pool, b)}

\* first_model = next(iter(combined)); total, dist = compute_distribution(...)
Distribution ==
    /\ pc = "loaded"
    /\ IF combined = <<>>
       THEN pc' = "failed" /\ UNCHANGED <<total, dist>>
       ELSE LET cd == ComputeDistribution(combined[1].recs)
            IN total' = cd.total /\ dist' = cd.dist /\ pc' = "counted"
    /\ UNCHANGED <<metrics, metrics1, metrics2, printed>>
    /\ UNCHANGED mergeVars
    /\ UNCHANGED filterVars
    /\ UNCHANGED runVars
    /\ UNCHANGED inferVars

\* metrics = evaluate(combined, args.output)
EvaluateCall ==
    /\ pc = "counted"
    /\ LET ev == Evaluate(combined)
       IN /\ metrics' = ev.metrics
          /\ pc' = IF ev.err THEN "raised" ELSE "evaluated"
    /\ UNCHANGED <<total, dist, metrics1, metrics2, printed>>
    /\ UNCHANGED mergeVars
    /\ UNCHANGED filterVars
    /\ UNCHANGED runVars
    /\ UNCHANGED inferVars

\* print_report(metrics, total, dist)
ReportCall ==
    /\ pc = "evaluated"
    /\ printed' = printed \o PrintReport(metrics, total, dist)
    /\ pc' = "reported"
    /\ UNCHANGED <<total, dist, metrics, metrics1, metrics2>>
    /\ UNCHANGED mergeVars
    /\ UNCHANGED filterVars
    /\ UNCHANGED runVars
    /\ UNCHANGED inferVars

InitEval ==
    /\ pc = "loaded"
    /\ combined \in EvalFiles(EvalPool, MaxEvalRecs)
    /\ fed = NothingFed /\ output_path = FALSE
    /\ written = NotWritten /\ pending = <<>> /\ inputs = <<>>
    /\ FilterIdle
    /\ RunIdle
    /\ InferIdle
    /\ ReportIdle

NextEval == Distribution \/ EvaluateCall \/ ReportCall

SpecEval == InitEval /\ [][NextEval]_vars

-----------------------------------------------------------------------------
(* Claims about evaluate and compute_distribution.                         *)

Evaluated == pc \in {"evaluated", "reported"}

\* the records of a model all carry gold and pred
Complete(rs) == \A h \in DOMAIN rs : {"gold", "pred"} \subseteq DOMAIN rs[h]

InTaxonomy(v) == \E k \in DOMAIN FULL_LABEL_NAMES : v = Label(FULL_LABEL_NAMES[k])

\* TP, FP and FN of label l over the records from position idx on; FP and FN
\* are split by whether the other value of the record is a taxonomy label
RECURSIVE Tally(_, _, _)
Tally(rs, l, idx) ==
    IF idx > Len(rs) THEN [tp |-> 0, fp_in |-> 0, fp_out |-> 0, fn_in |-> 0, fn_out |-> 0]
    ELSE LET rest == Tally(rs, l, idx + 1)
             g == rs[idx]["gold"]
             p == rs[idx]["pred"]
         IN IF g = l /\ p = l THEN [rest EXCEPT !.tp = @ + 1]
            ELSE IF p = l /\ InTaxonomy(g) THEN [rest EXCEPT !.fp_in = @ + 1]
            ELSE IF p = l THEN [rest EXCEPT !.fp_out = @ + 1]
            ELSE IF g = l /\ InTaxonomy(p) THEN [rest EXCEPT !.fn_in = @ + 1]
            ELSE IF g = l THEN [rest EXCEPT !.fn_out = @ + 1]
            ELSE rest

\* the score f is num / den, and 0 when den is 0
ScoreIs(f, num, den) == IF den = 0 THEN f[1] = 0 ELSE f[1] * den = num * f[2]

\* the entry of a report under a key (the empty dict when there is none)
Row(rpt, key) ==
    LET at == {k \in DOMAIN rpt : rpt[k].key = key}
    IN IF at = {} THEN <<>> ELSE rpt[CHOOSE k \in at : TRUE].scores

\* C13: for each model and each taxonomy label, precision = TP/(TP+FP),
\* recall = TP/(TP+FN), F1 is the harmonic mean of the two and support is the
\* number of records whose gold is the label, over that model's records.
C13_PerLabelScores ==
    Evaluated =>
        /\ [e \in DOMAIN metrics |-> metrics[e].id] = [e \in DOMAIN combined |-> combined[e].id]
        /\ \A e \in DOMAIN metrics : \A k \in DOMAIN FULL_LABEL_NAMES :
               LET c == Tally(combined[e].recs, Label(FULL_LABEL_NAMES[k]), 1)
                   TP == c.tp
                   FP == c.fp_in + c.fp_out
                   FN == c.fn_in + c.fn_out
                   row == Row(metrics[e].rpt, FULL_LABEL_NAMES[k])
                   P == row.precision
                   R == row.recall
                   F == row.f1_score
               IN /\ ScoreIs(P, TP, TP + FP)
                  /\ ScoreIs(R, TP, TP + FN)
                  /\ row.support = TP + FN
                  /\ IF P[1] = 0 /\ R[1] = 0 THEN F[1] = 0
                     ELSE F[1] * (P[1] * R[2] + R[1] * P[2]) = 2 * P[1] * R[1] * F[2]

\* C13 witness: the pairs (A,A), (B,A), (A,A) gave A precision 2/3 and recall 1,
\* and B precision 0 and recall 0 with support 1.
C13_Witness ==
    /\ pc = "evaluated"
    /\ combined[1].recs = <<Rec(TaxA, TaxA), Rec(TaxB, TaxA), Rec(TaxA, TaxA)>>
    /\ LET a == Row(metrics[1].rpt, FULL_LABEL_NAMES[1])
           b == Row(metrics[1].rpt, FULL_LABEL_NAMES[12])
       IN /\ ScoreIs(a.precision, 2, 3) /\ ScoreIs(a.recall, 1, 1) /\ a.support = 2
          /\ ScoreIs(b.precision, 0, 1) /\ ScoreIs(b.recall, 0, 1) /\ b.support = 1

\* the keys of a report, in insertion order
ReportKeys(rpt) == [k \in DOMAIN rpt |-> rpt[k].key]

C15_ZeroDivisionSafe ==
    /\ pc = "raised" => \E e \in DOMAIN combined : ~Complete(combined[e].recs)
    /\ Evaluated =>
        \A e \in DOMAIN metrics : \A k \in DOMAIN FULL_LABEL_NAMES :
            LET l == Label(FULL_LABEL_NAMES[k])
                rs == combined[e].recs
                golds == {h \in DOMAIN rs : rs[h]["gold"] = l}
                preds == {h \in DOMAIN rs : rs[h]["pred"] = l}
                row == Row(metrics[e].rpt, FULL_LABEL_NAMES[k])
            IN /\ DOMAIN row = {"precision", "recall", "f1_score", "support"}
               /\ preds = {} => row.precision[1] = 0
               /\ golds = {} => row.recall[1] = 0 /\ row.support = 0
               /\ (golds = {} /\ preds = {}) => row.f1_score[1] = 0

\* C15 witness: a model whose only record predicts label A for a gold outside
\* the taxonomy: A has predicted but no gold instances, the last label neither.
C15_Witness ==
    /\ pc = "evaluated"
    /\ combined[1].recs = <<Rec(X, TaxA)>>
    /\ Row(metrics[1].rpt, FULL_LABEL_NAMES[1]).recall[1] = 0
    /\ Row(metrics[1].rpt, FULL_LABEL_NAMES[1]).support = 0
    /\ Row(metrics[1].rpt, FULL_LABEL_NAMES[12]).support = 0

\* C16: a value outside the taxonomy gets no row and stops no evaluation; a
\* record with gold L and a pred outside is one FN of L, a record with pred L and
\* a gold outside is one FP of L, a record with both outside enters no count.
C16_OutsideValues ==
    /\ pc = "raised" => \E e \in DOMAIN combined : ~Complete(combined[e].recs)
    /\ Evaluated =>
        \A e \in DOMAIN metrics :
            /\ \A key \in Range(ReportKeys(metrics[e].rpt)) :
                   key \in Range(FULL_LABEL_NAMES)
                           \cup {"accuracy", "micro avg", "macro avg", "weighted avg"}
            /\ \A k \in DOMAIN FULL_LABEL_NAMES :
                   LET c == Tally(combined[e].recs, Label(FULL_LABEL_NAMES[k]), 1)
                       row == Row(metrics[e].rpt, FULL_LABEL_NAMES[k])
                   IN /\ ScoreIs(row.precision, c.tp, c.tp + c.fp_in + c.fp_out)
                      /\ ScoreIs(row.recall, c.tp, c.tp + c.fn_in + c.fn_out)
                      /\ row.support = c.tp + c.fn_in + c.fn_out
                      /\ ScoreIs(row.f1_score, 2 * c.tp,
                                 2 * c.tp + c.fp_in + c.fp_out + c.fn_in + c.fn_out)

\* C16 witness: a model with a record of gold A and a pred outside, one of pred A
\* and a gold outside, and one with both outside: A has one FN and one FP, so
\* precision 0, recall 0 and support 1.
C16_Witness ==
    /\ pc = "evaluated"
    /\ Len(combined) = 1
    /\ combined[1].recs = <<Rec(TaxA, X), Rec(X, TaxA), Rec(X, X)>>
    /\ Row(metrics[1].rpt, FULL_LABEL_NAMES[1]).precision = <<0, 1>>
    /\ Row(metrics[1].rpt, FULL_LABEL_NAMES[1]).recall = <<0, 1>>
    /\ Row(metrics[1].rpt, FULL_LABEL_NAMES[1]).support = 1

\* the sum of the scores f of the taxonomy rows of a report, from label k on
RECURSIVE RowTotal(_, _, _)
RowTotal(rpt, f, k) ==
    IF k > Len(FULL_LABEL_NAMES) THEN <<0, 1>>
    ELSE LET here == Row(rpt, FULL_LABEL_NAMES[k])[f]
             rest == RowTotal(rpt, f, k + 1)
         IN <<here[1] * rest[2] + rest[1] * here[2], here[2] * rest[2]>>

\* C17: the macro average of precision, of recall and of F1 is the sum of the
\* score over the 12 taxonomy rows divided by 12, rows of support 0 included.
C17_MacroIsPlainMean ==
    Evaluated =>
        \A e \in DOMAIN metrics : \A f \in {"precision", "recall", "f1_score"} :
            LET mac == Row(metrics[e].rpt, "macro avg")[f]
                sum == RowTotal(metrics[e].rpt, f, 1)
            IN mac[1] * sum[2] * 12 = sum[1] * mac[2]

\* C17 witness: a model with one true positive for label A and a record with
\* both values outside the taxonomy: A scores 1, the other 11 labels have
\* support 0 and score 0, and the macro precision is 1/12.
C17_Witness ==
    /\ pc = "evaluated"
    /\ combined[1].recs = <<Rec(TaxA, TaxA), Rec(X, X)>>
    /\ ScoreIs(Row(metrics[1].rpt, "macro avg").precision, 1, 12)
    /\ ScoreIs(Row(metrics[1].rpt, "macro avg").f1_score, 1, 12)

\* the number of records from position idx on whose gold is the label l
RECURSIVE GoldCount(_, _, _)
GoldCount(rs, l, idx) ==
    IF idx > Len(rs) THEN 0
    ELSE (IF FieldValue(rs[idx], "gold") = l THEN 1 ELSE 0) + GoldCount(rs, l, idx + 1)

RECURSIVE CountTotal(_, _)
CountTotal(d, k) == IF k > Len(d) THEN 0 ELSE d[k].count + CountTotal(d, k + 1)

Counted == pc \in {"counted", "raised", "evaluated", "reported"}

\* C18: total is the number of records handed in; the keys of the mapping are
\* the taxonomy labels, each with the number of records whose gold it is; the
\* counts sum to at most total, and to total exactly when every record has a
\* gold of the taxonomy.
C18_Distribution ==
    Counted =>
        LET rs == combined[1].recs
        IN /\ total = Len(rs)
           /\ [k \in DOMAIN dist |-> dist[k].key] = FULL_LABEL_NAMES
           /\ \A k \in DOMAIN dist : dist[k].count = GoldCount(rs, Label(dist[k].key), 1)
           /\ CountTotal(dist, 1) <= total
           /\ CountTotal(dist, 1) = total <=>
                  \A h \in DOMAIN rs : InTaxonomy(FieldValue(rs[h], "gold"))

\* C18 witness: three records, one with a taxonomy gold, one with a gold outside
\* the taxonomy and one without gold: total 3, one record counted.
C18_Witness ==
    /\ pc = "counted"
    /\ total = 3
    /\ CountTotal(dist, 1) = 1
    /\ NoGold \in Range(combined[1].recs)
    /\ \E h \in DOMAIN combined[1].recs :
           /\ HasKey(combined[1].recs[h], "gold")
           /\ combined[1].recs[h]["gold"] = X

-----------------------------------------------------------------------------
(* print_report and print_delta on two metrics mappings (compare.py).      *)
(* Model ids are ordered as Python orders strings: by code point, a proper  *)
(* prefix first.                                                            *)

ModelIds == {"m1", "m2", "m10"}

\* the characters of a model id
Chars(id) ==
    CASE id = "m1" -> <<"m", "1">>
      [] id = "m2" -> <<"m", "2">>
      [] id = "m10" -> <<"m", "1", "0">>

\* ord(c)
Ord(c) == CASE c = "0" -> 48 [] c = "1" -> 49 [] c = "2" -> 50 [] c = "m" -> 109

\* a < b for two strings
StrLess(a, b) ==
    \E k \in 1..(Len(a) + 1) :
        /\ k <= Len(b)
        /\ \A h \in 1..(k - 1) : a[h] = b[h]
        /\ k > Len(a) \/ Ord(a[k]) < Ord(b[k])

\* mutant: descending order
Sorted_Descending(ids) ==
    LET n == Cardinality(ids)
    IN CHOOSE seq \in [1..n -> ids] :
           /\ Range(seq) = ids
           /\ \A h \in 1..(n - 1) : StrLess(Chars(seq[h + 1]), Chars(seq[h]))

\* sorted(ids) for a set of model ids
Sorted(ids) ==
    LET n == Cardinality(ids)
    IN CHOOSE seq \in [1..n -> ids] :
           /\ Range(seq) = ids
           /\ \A h \in 1..(n - 1) : StrLess(Chars(seq[h]), Chars(seq[h + 1]))

\* metrics.keys()
MetricsKeys(ms) == {ms[e].id : e \in DOMAIN ms}

\* metrics[model_id]
MetricsGet(ms, model_id) == ms[CHOOSE e \in DOMAIN ms : ms[e].id = model_id].rpt

\* mutant: the two values are added
DeltaTenths_Sum(a, b) == RoundHalfEven((b[1] * a[2] + a[1] * b[2]) * 1000, a[2] * b[2])

\* format(x, ".1f") for x = (b - a) * 100, in tenths
DeltaTenths(a, b) == RoundHalfEven((b[1] * a[2] - a[1] * b[2]) * 1000, a[2] * b[2])

\* mutant: the difference is taken as file 1 minus file 2
DeltaLine_Reversed(name, m1, m2) ==
    [line |-> "delta", label |-> name,
     dp |-> DeltaTenths(ScoreGet(m2, "precision"), ScoreGet(m1, "precision")),
     dr |-> DeltaTenths(ScoreGet(m2, "recall"), ScoreGet(m1, "recall")),
     df |-> DeltaTenths(ScoreGet(m2, "f1_score"), ScoreGet(m1, "f1_score"))]

\* one table line of print_delta: (m2 - m1) * 100 for each score, one decimal
DeltaLine(name, m1, m2) ==
    [line |-> "delta", label |-> name,
     dp |-> DeltaTenths(ScoreGet(m1, "precision"), ScoreGet(m2, "precision")),
     dr |-> DeltaTenths(ScoreGet(m1, "recall"), ScoreGet(m2, "recall")),
     df |-> DeltaTenths(ScoreGet(m1, "f1_score"), ScoreGet(m2, "f1_score"))]

\* the block print_delta puts out for one model
DeltaBlock(model_id, rpt1, rpt2) ==
    <<[line |-> "delta model", model_id |-> model_id], [line |-> "delta header"]>>
    \o [k \in DOMAIN FULL_LABEL_NAMES |->
           DeltaLine(FULL_LABEL_NAMES[k], RptGet(rpt1, FULL_LABEL_NAMES[k]),
                     RptGet(rpt2, FULL_LABEL_NAMES[k]))]
    \o <<DeltaLine("Macro average", RptGet(rpt1, "macro avg"), RptGet(rpt2, "macro avg")),
         [line |-> "rule"]>>

\* the loop over sorted(common_models), from position idx on
RECURSIVE DeltaBlocks(_, _, _, _)
DeltaBlocks(ms1, ms2, order, idx) ==
    IF idx > Len(order) THEN <<>>
    ELSE DeltaBlock(order[idx], MetricsGet(ms1, order[idx]), MetricsGet(ms2, order[idx]))
         \o DeltaBlocks(ms1, ms2, order, idx + 1)

\* print_delta(metrics1, metrics2): the lines it prints
PrintDelta(ms1, ms2) ==
    <<[line |-> "delta title"]>>
    \o DeltaBlocks(ms1, ms2, Sorted(MetricsKeys(ms1) \cap MetricsKeys(ms2)), 1)

MaxSnapshots == 4   \* model entries the two metrics mappings hold together

\* Snapshots: two that evaluate returns, and one with holes: no entry for the
\* first label, no precision in the entry of the last label, no macro average.
SnapA == ClassificationReport(<<TaxA, TaxB, TaxA>>, <<TaxA, TaxA, TaxA>>)
SnapB == ClassificationReport(<<TaxA, TaxB>>, <<TaxA, TaxB>>)
SnapHoles ==
    LET kept == SelectSeq(SnapB, LAMBDA e : e.key \notin {FULL_LABEL_NAMES[1], "macro avg"})
    IN [k \in DOMAIN kept |->
           IF kept[k].key = FULL_LABEL_NAMES[12]
           THEN [key |-> kept[k].key,
                 scores |-> [f \in {"recall", "f1_score", "support"} |-> kept[k].scores[f]]]
           ELSE kept[k]]

Snapshots == {SnapA, SnapB, SnapHoles}

\* the metrics mappings of at most b models
MetricsOf(b) ==
    UNION {{[h \in 1..n |-> [id |-> ids[h], rpt |-> rpts[h]]] :
                ids \in {s \in [1..n -> ModelIds] : \A h, k \in 1..n : h # k => s[h] # s[k]},
                rpts \in [1..n -> Snapshots]} :
           n \in 0..(IF b < 3 THEN b ELSE 3)}

\* print_report(metrics1, total1, dist1)
ReportFirst ==
    /\ pc = "compare"
    /\ printed' = printed \o PrintReport(metrics1, total, dist)
    /\ pc' = "first reported"
    /\ UNCHANGED <<total, dist, metrics, metrics1, metrics2>>
    /\ UNCHANGED mergeVars
    /\ UNCHANGED filterVars
    /\ UNCHANGED runVars
    /\ UNCHANGED inferVars

\* print_report(metrics2, total2, dist2)
ReportSecond ==
    /\ pc = "first reported"
    /\ printed' = printed \o PrintReport(metrics2, total, dist)
    /\ pc' = "second reported"
    /\ UNCHANGED <<total, dist, metrics, metrics1, metrics2>>
    /\ UNCHANGED mergeVars
    /\ UNCHANGED filterVars
    /\ UNCHANGED runVars
    /\ UNCHANGED inferVars

\* print_delta(metrics1, metrics2)
DeltaCall ==
    /\ pc = "second reported"
    /\ printed' = printed \o PrintDelta(metrics1, metrics2)
    /\ pc' = "compared"
    /\ UNCHANGED <<total, dist, metrics, metrics1, metrics2>>
    /\ UNCHANGED mergeVars
    /\ UNCHANGED filterVars
    /\ UNCHANGED runVars
    /\ UNCHANGED inferVars

InitDelta ==
    /\ pc = "compare"
    /\ metrics1 \in MetricsOf(MaxSnapshots)
    /\ metrics2 \in MetricsOf(MaxSnapshots - Len(metrics1))
    /\ total = 0 /\ dist = ComputeDistribution(<<>>).dist
    /\ metrics = <<>> /\ printed = <<>>
    /\ MergeIdle
    /\ FilterIdle
    /\ RunIdle
    /\ InferIdle

NextDelta == ReportFirst \/ ReportSecond \/ DeltaCall

SpecDelta == InitDelta /\ [][NextDelta]_vars

-----------------------------------------------------------------------------
(* Claims about print_report and print_delta.                              *)

\* the lines of one kind among the printed lines, in printing order
Lines(kind) == SelectSeq(printed, LAMBDA x : x.line = kind)

\* the model ids print_delta has put out, in printing order
DeltaModels ==
    LET heads == Lines("delta model")
    IN [h \in DOMAIN heads |-> heads[h].model_id]

\* the place of a model id in ascending string order: "m1" < "m10" < "m2"
Place(id) == CASE id = "m1" -> 1 [] id = "m10" -> 2 [] id = "m2" -> 3

InsertionOrder(ms) == [e \in DOMAIN ms |-> ms[e].id]

\* C19: print_delta puts out one block for each model id that both mappings
\* hold, in ascending order of the ids, and nothing for an id only one of them
\* holds; print_report lists the models of its mapping in insertion order.
C19_DeltaModelsSorted ==
    pc = "compared" =>
        LET models == DeltaModels
            listed == Lines("model")
        IN /\ Range(models) = {id \in ModelIds :
                  /\ \E e \in DOMAIN metrics1 : metrics1[e].id = id
                  /\ \E e \in DOMAIN metrics2 : metrics2[e].id = id}
           /\ \A h, k \in DOMAIN models : h < k => Place(models[h]) < Place(models[k])
           /\ [h \in DOMAIN listed |-> listed[h].model_id]
                  = InsertionOrder(metrics1) \o InsertionOrder(metrics2)

\* C19 witness: both mappings hold m2 and m10, the first in the order m2, m10;
\* the delta lists m10 before m2.
C19_Witness ==
    /\ pc = "compared"
    /\ InsertionOrder(metrics1) = <<"m2", "m10">>
    /\ InsertionOrder(metrics2) = <<"m10", "m2">>
    /\ DeltaModels = <<"m10", "m2">>

\* scores.get(f, 0) read off a row
Field(row, f) == IF f \in DOMAIN row THEN row[f] ELSE <<0, 1>>

Snapshot(ms, id) == ms[CHOOSE e \in DOMAIN ms : ms[e].id = id].rpt

\* t tenths is (b - a) * 100 to one decimal place
Shows(t, a, b) ==
    LET num == (b[1] * a[2] - a[1] * b[2]) * 1000
        den == a[2] * b[2]
        off == num - t * den
    IN 2 * (IF off < 0 THEN -off ELSE off) <= den

\* the labels of the rows of a delta block, and the keys they are read from
RowLabels == FULL_LABEL_NAMES \o <<"Macro average">>
RowKeys == FULL_LABEL_NAMES \o <<"macro avg">>

\* C20: each block of print_delta has the 12 taxonomy labels in taxonomy order
\* and then the macro average as its rows, and each value is (snapshot 2 -
\* snapshot 1) * 100 of precision, recall and F1, a label or a score that a
\* snapshot lacks counting as 0.
C20_DeltaValues ==
    pc = "compared" =>
        LET deltas == Lines("delta")
            models == DeltaModels
        IN /\ Len(deltas) = Len(RowLabels) * Len(models)
           /\ \A j \in DOMAIN models :
                  LET rpt1 == Snapshot(metrics1, models[j])
                      rpt2 == Snapshot(metrics2, models[j])
                  IN \A k \in DOMAIN RowLabels :
                         LET shown == deltas[(j - 1) * Len(RowLabels) + k]
                             row1 == Row(rpt1, RowKeys[k])
                             row2 == Row(rpt2, RowKeys[k])
                         IN /\ shown.label = RowLabels[k]
                            /\ Shows(shown.dp, Field(row1, "precision"), Field(row2, "precision"))
                            /\ Shows(shown.dr, Field(row1, "recall"), Field(row2, "recall"))
                            /\ Shows(shown.df, Field(row1, "f1_score"), Field(row2, "f1_score"))

\* C20 witness: m1 has precision 2/3 and recall 1 for the first label in the
\* first mapping and no entry for it, nor a macro average, in the second: the
\* row shows -66.7 and -100.0, the macro row -5.6 for precision.
C20_Witness ==
    /\ pc = "compared"
    /\ metrics1 = <<[id |-> "m1", rpt |-> SnapA]>>
    /\ metrics2 = <<[id |-> "m1", rpt |-> SnapHoles]>>
    /\ Lines("delta")[1].dp = -667
    /\ Lines("delta")[1].dr = -1000
    /\ Lines("delta")[13].dp = -56

\* C21: print_delta on one metrics mapping for both sides puts out a block for
\* every model of the mapping, and every row of it, the 12 labels and the macro
\* average, shows 0 for precision, recall and F1.
C21_DeltaZeroIdentity ==
    (pc = "compared" /\ metrics1 = metrics2) =>
        LET deltas == Lines("delta")
        IN /\ Range(DeltaModels) = {metrics1[e].id : e \in DOMAIN metrics1}
           /\ Len(deltas) = Len(RowLabels) * Len(metrics1)
           /\ \A h \in DOMAIN deltas :
                  deltas[h].dp = 0 /\ deltas[h].dr = 0 /\ deltas[h].df = 0

\* C21 witness: the same mapping of two models on both sides, one snapshot with
\* non-zero scores and one with holes; 26 rows of zeros were printed.
C21_Witness ==
    /\ pc = "compared"
    /\ metrics1 = metrics2
    /\ Len(metrics1) = 2
    /\ metrics1[1].rpt = SnapA /\ metrics1[2].rpt = SnapHoles
    /\ Len(Lines("delta")) = 26
    /\ Lines("delta")[1].dp = 0

-----------------------------------------------------------------------------
(* Claims about failing inputs.                                            *)

\* C22 as claimed, for filter_results: a call on a list in which some record
\* lacks span or gold does not return.
C22_MissingFieldFatal ==
    pc = "returned" =>
        \A h \in DOMAIN results : {"span", "gold"} \subseteq DOMAIN results[h]

\* C22, the half about evaluate: when a record of some model lacks gold or pred
\* the call raises and returns no metrics, and it raises for nothing else.
C22_EvaluateHalf ==
    /\ pc \in {"raised", "evaluated", "reported"} =>
           (pc = "raised" <=> \E e \in DOMAIN combined : ~Complete(combined[e].recs))
    /\ pc = "raised" => metrics = <<>> /\ printed = <<>>

-----------------------------------------------------------------------------
(* Further claims about filter_results.                                    *)

\* C27: what a call returns holds no pair of records (the earlier one first) of
\* one policy group with different gold labels and a ratio at or above the
\* threshold, so a second call with the same threshold returns it unchanged;
\* the records returned are records of the input, in the input's order, and the
\* list handed in is left as it was.
C27_IdempotentNoConflictLeft ==
    /\ [](pc = "returned" =>
             LET out == filtered.out
                 again == FilterResults(out, threshold)
             IN /\ \A i, j \in DOMAIN out : ~Disagree(out, i, j, threshold)
                /\ ~again.err /\ again.drop = {} /\ again.out = out
                /\ out = SubSeqAt(results, DOMAIN results \ filtered.drop, 1))
    /\ [][results' = results]_vars

\* C27 witness: a call dropped two of three records and returned the third.
C27_Witness ==
    /\ pc = "returned"
    /\ Len(results) = 3
    /\ Cardinality(filtered.drop) = 2
    /\ Len(filtered.out) = 1

-----------------------------------------------------------------------------
(* evaluate.py run with or without --filter on the results of two models   *)
(* over the same sections (without --filtered_output, --output, --use_docx).*)

\* the loop `combined[model_id] = filter_results(results, args.threshold)` from
\* entry e on: [err, comb], err when a call raised KeyError
RECURSIVE FilterEach(_, _, _)
FilterEach(comb, e, t) ==
    IF e > Len(comb) THEN [err |-> FALSE, comb |-> comb]
    ELSE LET f == FilterResults(comb[e].recs, t)
         IN IF f.err THEN [err |-> TRUE, comb |-> comb]
            ELSE FilterEach([comb EXCEPT ![e].recs = f.out], e + 1, t)

\* if args.filter: the status line, then every model's list is filtered
FilterModels ==
    /\ pc = "opened"
    /\ args_filter
    /\ printed' = Append(printed, [line |-> "status", text |-> "Filtering spans"])
    /\ LET f == FilterEach(combined, 1, threshold)
       IN /\ combined' = f.comb
          /\ pc' = IF f.err THEN "raised" ELSE "loaded"
    /\ UNCHANGED <<fed, output_path, written, pending, inputs>>
    /\ UNCHANGED <<total, dist, metrics, metrics1, metrics2>>
    /\ UNCHANGED filterVars
    /\ UNCHANGED runVars
    /\ UNCHANGED inferVars

\* else: the status line only
SkipFilter ==
    /\ pc = "opened"
    /\ ~args_filter
    /\ printed' = Append(printed, [line |-> "status", text |-> "Skipping span filtering"])
    /\ pc' = "loaded"
    /\ UNCHANGED <<total, dist, metrics, metrics1, metrics2>>
    /\ UNCHANGED mergeVars
    /\ UNCHANGED filterVars
    /\ UNCHANGED runVars
    /\ UNCHANGED inferVars

MaxSections == 3    \* sections (records per model) in the file of an aligned run

\* Sections with their gold label: two with the same span and different gold
\* labels, one with a similar span, one without span.
Sections ==
    {[policy_id |-> PyInt(1), span |-> PyS(<<"a", "b", "a">>), gold |-> TaxA],
     [policy_id |-> PyInt(1), span |-> PyS(<<"a", "b", "a">>), gold |-> TaxB],
     [policy_id |-> PyInt(1), span |-> PyS(<<"b", "c", "a">>), gold |-> TaxB],
     [policy_id |-> PyInt(1), gold |-> TaxA]}

\* the record of a section with a model's prediction
WithPred(section, p) == [f \in DOMAIN section \cup {"pred"} |->
                            IF f = "pred" THEN p ELSE section[f]]

\* the combined files of two models over the same at most b sections: m1
\* predicts anything, m2 predicts the last label everywhere
AlignedFiles(b) ==
    UNION {{<<[id |-> "m1", recs |-> [h \in DOMAIN data |-> WithPred(data[h], preds[h])]],
              [id |-> "m2", recs |-> [h \in DOMAIN data |-> WithPred(data[h], TaxB)]]>> :
                preds \in [DOMAIN data -> {TaxA, TaxB}]} :
           data \in RecLists(Sections, b)}

\* --threshold 0.5 and the default 0.75
RunThresholds == {<<2, 4>>, <<3, 4>>}

InitEvalFilter ==
    /\ pc = "opened"
    /\ combined \in AlignedFiles(MaxSections)
    /\ inputs = <<combined>>
    /\ args_filter \in BOOLEAN
    /\ threshold \in (IF args_filter THEN RunThresholds ELSE {<<3, 4>>})
    /\ first_model = ""
    /\ InferIdle
    /\ results = <<>> /\ filtered = NotCalled
    /\ fed = NothingFed /\ output_path = FALSE
    /\ written = NotWritten /\ pending = <<>>
    /\ ReportIdle

NextEvalFilter == FilterModels \/ SkipFilter \/ Distribution \/ EvaluateCall \/ ReportCall

SpecEvalFilter == InitEvalFilter /\ [][NextEvalFilter]_vars

\* the run filtered its models and went on
FilteredRun == args_filter /\ pc \in {"loaded", "counted", "evaluated", "reported"}

\* two records agree on policy_id, span and gold
SameSection(r, q) ==
    \A f \in {"policy_id", "span", "gold"} :
        /\ HasKey(r, f) <=> HasKey(q, f)
        /\ Get(r, f) = Get(q, f)

\* C26: filter_results depends only on (policy_id, span, gold), never on pred:
\* for the lists of two models that agree position by position on these fields
\* and differ in pred, the same positions are dropped (or both calls fail), so
\* after the per-model filtering of evaluate.py every model's list is the same
\* selection of positions of its input, the lists are still aligned, and the
\* distribution computed from the first model is the distribution of every model.
C26_FilterIgnoresPred ==
    LET given == inputs[1]
        first == FilterResults(given[1].recs, threshold)
    IN /\ args_filter /\ pc # "opened" =>
              \A e \in DOMAIN given :
                  LET f == FilterResults(given[e].recs, threshold)
                  IN /\ f.err = first.err
                     /\ f.drop = first.drop
                     /\ (pc = "raised" <=> f.err)
       /\ FilteredRun =>
              /\ \A e \in DOMAIN combined :
                     /\ combined[e].recs =
                            SubSeqAt(given[e].recs, DOMAIN given[e].recs \ first.drop, 1)
                     /\ Len(combined[e].recs) = Len(combined[1].recs)
                     /\ \A h \in DOMAIN combined[e].recs :
                            SameSection(combined[e].recs[h], combined[1].recs[h])
              /\ pc # "loaded" =>
                     \A e \in DOMAIN combined :
                         ComputeDistribution(combined[e].recs) = [total |-> total, dist |-> dist]

\* a filtered run of three sections that dropped two of them, where the two
\* models predicted differently on a dropped and on the kept section
C26_Witness ==
    /\ FilteredRun /\ pc = "reported"
    /\ Len(inputs[1][1].recs) = 3 /\ Len(combined[1].recs) = 1 /\ Len(combined[2].recs) = 1
    /\ combined[1].recs[1]["pred"] # combined[2].recs[1]["pred"]
    /\ \E h \in 1..3 : /\ inputs[1][1].recs[h]["pred"] # inputs[1][2].recs[h]["pred"]
                       /\ inputs[1][1].recs[h] # combined[1].recs[1]
    /\ total = 1

-----------------------------------------------------------------------------
(* The three tools from start to end: evaluate.py, compare.py and          *)
(* combinator.py, with the failures of loading an input.                   *)

MaxRunRecs == 2     \* records the input files of one run hold together

\* Records of the evaluator and compare runs: two that conflict under --filter,
\* and one without gold.
RunPool == {Rec(TaxA, TaxA), Rec(TaxB, TaxA), NoGold}

\* Records of the merge run: two policies, policy_id null, and no policy_id.
OtherPolicy == [policy_id |-> PyInt(2), span |-> PyS(<<"s">>), gold |-> X, pred |-> X]
NullPolicy == [policy_id |-> PyNone, span |-> PyS(<<"s">>), gold |-> X, pred |-> X]
NoPolicy == [span |-> PyS(<<"s">>), gold |-> X, pred |-> X]
NoPolicyY == [span |-> PyS(<<"s">>), gold |-> X, pred |-> Y]

PolicyPool == {Full, OtherPolicy, NullPolicy, NoPolicy, NoPolicyY}

\* evaluate.py: with open(args.input) as f: combined = json.load(f)
OpenInput ==
    /\ pc = "start"
    /\ combined' = Head(pending)
    /\ inputs' = <<Head(pending)>>
    /\ pending' = <<>>
    /\ pc' = "opened"
    /\ UNCHANGED <<fed, output_path, written>>
    /\ UNCHANGED filterVars
    /\ UNCHANGED reportVars
    /\ UNCHANGED runVars
    /\ UNCHANGED inferVars

\* compare.py: both files are opened, then both are parsed
OpenBoth ==
    /\ pc = "comparing"
    /\ inputs' = pending
    /\ pending' = <<>>
    /\ pc' = "loaded both"
    /\ UNCHANGED <<fed, combined, output_path, written>>
    /\ UNCHANGED filterVars
    /\ UNCHANGED reportVars
    /\ UNCHANGED runVars
    /\ UNCHANGED inferVars

\* open() or json.load() raises on an input of evaluate.py or compare.py
OpenFails ==
    /\ pc \in {"start", "comparing"}
    /\ pc' = "failed"
    /\ UNCHANGED mergeVars
    /\ UNCHANGED filterVars
    /\ UNCHANGED reportVars
    /\ UNCHANGED runVars
    /\ UNCHANGED inferVars

\* first_model = next(iter(set(combined1.keys()).intersection(combined2.keys()))):
\* any common model (the order of a set of strings is not fixed), StopIteration
\* when there is none
PickModel ==
    /\ pc = "loaded both"
    /\ LET common == Ids(inputs[1]) \cap Ids(inputs[2])
       IN IF common = {}
          THEN pc' = "failed" /\ UNCHANGED first_model
          ELSE pc' = "picked" /\ first_model' \in common
    /\ UNCHANGED args_filter
    /\ UNCHANGED inferVars
    /\ UNCHANGED mergeVars
    /\ UNCHANGED filterVars
    /\ UNCHANGED reportVars

\* metrics1 = evaluate(combined1, args.output1)
EvaluateFirst ==
    /\ pc = "picked"
    /\ LET ev == Evaluate(inputs[1])
       IN /\ metrics1' = ev.metrics
          /\ pc' = IF ev.err THEN "raised" ELSE "evaluated first"
    /\ UNCHANGED <<total, dist, metrics, metrics2, printed>>
    /\ UNCHANGED mergeVars
    /\ UNCHANGED filterVars
    /\ UNCHANGED runVars
    /\ UNCHANGED inferVars

\* metrics2 = evaluate(combined2, args.output2)
EvaluateSecond ==
    /\ pc = "evaluated first"
    /\ LET ev == Evaluate(inputs[2])
       IN /\ metrics2' = ev.metrics
          /\ pc' = IF ev.err THEN "raised" ELSE "evaluated both"
    /\ UNCHANGED <<total, dist, metrics, metrics1, printed>>
    /\ UNCHANGED mergeVars
    /\ UNCHANGED filterVars
    /\ UNCHANGED runVars
    /\ UNCHANGED inferVars

\* the title of a file's report, its distribution and print_report
FileReport(n, ms, rs) ==
    LET cd == ComputeDistribution(rs)
    IN <<[line |-> "file", file |-> n]>> \o PrintReport(ms, cd.total, cd.dist)

\* mutant: the report of file 1 is printed before file 2 is evaluated
ShowFirst_BeforeSecondEvaluate ==
    /\ pc = "evaluated first"
    /\ printed' = printed \o FileReport(1, metrics1, Lookup(inputs[1], first_model))
    /\ total' = ComputeDistribution(Lookup(inputs[1], first_model)).total
    /\ dist' = ComputeDistribution(Lookup(inputs[1], first_model)).dist
    /\ pc' = "first shown"
    /\ UNCHANGED <<metrics, metrics1, metrics2>>
    /\ UNCHANGED mergeVars
    /\ UNCHANGED filterVars
    /\ UNCHANGED runVars
    /\ UNCHANGED inferVars

\* "=== FILE 1 REPORT ===", compute_distribution(combined1[first_model]), print_report
ShowFirst ==
    /\ pc = "evaluated both"
    /\ printed' = printed \o FileReport(1, metrics1, Lookup(inputs[1], first_model))
    /\ total' = ComputeDistribution(Lookup(inputs[1], first_model)).total
    /\ dist' = ComputeDistribution(Lookup(inputs[1], first_model)).dist
    /\ pc' = "first shown"
    /\ UNCHANGED <<metrics, metrics1, metrics2>>
    /\ UNCHANGED mergeVars
    /\ UNCHANGED filterVars
    /\ UNCHANGED runVars
    /\ UNCHANGED inferVars

\* "=== FILE 2 REPORT ===", compute_distribution(combined2[first_model]), print_report
ShowSecond ==
    /\ pc = "first shown"
    /\ printed' = printed \o FileReport(2, metrics2, Lookup(inputs[2], first_model))
    /\ total' = ComputeDistribution(Lookup(inputs[2], first_model)).total
    /\ dist' = ComputeDistribution(Lookup(inputs[2], first_model)).dist
    /\ pc' = "second reported"
    /\ UNCHANGED <<metrics, metrics1, metrics2>>
    /\ UNCHANGED mergeVars
    /\ UNCHANGED filterVars
    /\ UNCHANGED runVars
    /\ UNCHANGED inferVars

\* combinator.py: any file the next path of --inputs may hold
RunFile ==
    /\ pc = "merging"
    /\ \E data \in Files(PolicyPool, MaxRunRecs - FedCount) : ReadFile(data)
    /\ UNCHANGED <<pending, inputs>>
    /\ UNCHANGED filterVars
    /\ UNCHANGED runVars
    /\ UNCHANGED inferVars
    /\ UNCHANGED reportVars

\* mutant: a record without policy_id counts with the value None
CountUniquePolicies_NoneForMissing(comb) ==
    [e \in DOMAIN comb |->
        [id |-> comb[e].id,
         count |-> Cardinality({Get(comb[e].recs[h], "policy_id") :
                                    h \in DOMAIN comb[e].recs})]]

\* count_unique_policies(combined): per model, the size of the set of the
\* policy_id values of the records that have the field
CountUniquePolicies(comb) ==
    [e \in DOMAIN comb |->
        [id |-> comb[e].id,
         count |-> Cardinality({comb[e].recs[h]["policy_id"] :
                                    h \in {k \in DOMAIN comb[e].recs :
                                               HasKey(comb[e].recs[k], "policy_id")}})]]

\* unique_counts.get(model_id, 0)
UniqueGet(unique_counts, model_id) ==
    IF \E e \in DOMAIN unique_counts : unique_counts[e].id = model_id
    THEN unique_counts[CHOOSE e \in DOMAIN unique_counts : unique_counts[e].id = model_id].count
    ELSE 0

\* main of combinator.py after combine_results: the title and one entry per model
Summary ==
    /\ pc = "done"
    /\ LET unique_counts == CountUniquePolicies(combined)
       IN printed' = printed
              \o <<[line |-> "summary title"]>>
              \o [e \in DOMAIN combined |->
                     [line |-> "summary", model |-> combined[e].id,
                      total |-> Len(combined[e].recs),
                      unique |-> UniqueGet(unique_counts, combined[e].id)]]
    /\ pc' = "summarised"
    /\ UNCHANGED <<total, dist, metrics, metrics1, metrics2>>
    /\ UNCHANGED mergeVars
    /\ UNCHANGED filterVars
    /\ UNCHANGED runVars
    /\ UNCHANGED inferVars

\* evaluate.py --input F [--filter]
InitEvalRun ==
    /\ pc = "start"
    /\ \E F \in EvalFiles(RunPool, MaxRunRecs) : pending = <<F>>
    /\ combined = <<>> /\ inputs = <<>>
    /\ fed = NothingFed /\ output_path = FALSE /\ written = NotWritten
    /\ args_filter \in BOOLEAN /\ first_model = ""
    /\ InferIdle
    /\ results = <<>> /\ threshold = <<3, 4>> /\ filtered = NotCalled
    /\ ReportIdle

\* compare.py --input1 F1 --input2 F2
InitCompareRun ==
    /\ pc = "comparing"
    /\ \E F1 \in EvalFiles(RunPool, MaxRunRecs) :
           \E F2 \in EvalFiles(RunPool, MaxRunRecs - Size(F1, 1)) : pending = <<F1, F2>>
    /\ combined = <<>> /\ inputs = <<>>
    /\ fed = NothingFed /\ output_path = FALSE /\ written = NotWritten
    /\ FilterIdle
    /\ RunIdle
    /\ InferIdle
    /\ ReportIdle

\* combinator.py --inputs ... [--output path]
InitMergeRun == InitMerge

InitRuns == InitEvalRun \/ InitCompareRun \/ InitMergeRun

NextRuns ==
    \/ OpenInput \/ OpenFails \/ FilterModels \/ SkipFilter
    \/ Distribution \/ EvaluateCall \/ ReportCall
    \/ OpenBoth \/ PickModel \/ EvaluateFirst \/ EvaluateSecond
    \/ ShowFirst \/ ShowSecond \/ DeltaCall
    \/ RunFile \/ LoadFails \/ StreamEnd \/ Summary

SpecRuns == InitRuns /\ [][NextRuns]_vars

-----------------------------------------------------------------------------
(* Claims about the runs.                                                  *)

\* the lines of a report: a file title, the distribution, the per-model tables
\* and the delta comparison (status and summary lines are not report lines)
ReportKinds ==
    {"file", "total", "distribution", "count header", "count", "blank", "model",
     "scores header", "scores", "rule", "delta title", "delta model", "delta header",
     "delta"}

HasReportLine == \E h \in DOMAIN printed : printed[h].line \in ReportKinds

\* C23: no partial report. In the evaluator and in the compare tool no report
\* line (distribution, per-model table, delta) is printed unless every input
\* file was loaded and every evaluate call completed; a fatal input error in
\* either input ends the run before the first report line; in the merge tool a
\* failure on an input leaves the output destination unwritten. A run that has
\* failed takes no further step.
C23_NoPartialReport ==
    /\ [](HasReportLine =>
              \/ /\ pc = "reported"
                 /\ Len(inputs) = 1
                 /\ ~Evaluate(combined).err /\ metrics = Evaluate(combined).metrics
              \/ /\ pc \in {"first shown", "second reported", "compared"}
                 /\ Len(inputs) = 2
                 /\ \A n \in 1..2 : ~Evaluate(inputs[n]).err
                 /\ metrics1 = Evaluate(inputs[1]).metrics
                 /\ metrics2 = Evaluate(inputs[2]).metrics)
    /\ [](pc \in {"failed", "raised"} => ~HasReportLine /\ written = NotWritten)
    /\ [][pc \notin {"failed", "raised"}]_vars

\* C23 witness: a compare run whose first file was evaluated and whose second
\* file holds a record without gold: evaluate raised, nothing was printed.
C23_Witness ==
    /\ pc = "raised" /\ Len(inputs) = 2
    /\ metrics1 # <<>> /\ Evaluate(inputs[2]).err
    /\ printed = <<>>

\* the distinct policy_id values of the records of rs that have the field
PolicyValues(rs) ==
    {v \in {PyInt(1), PyInt(2), PyNone} :
         \E h \in DOMAIN rs : HasKey(rs[h], "policy_id") /\ rs[h]["policy_id"] = v}

\* C24: count_unique_policies gives, per model, the number of distinct
\* policy_id values among the model's records: records without the field are
\* left out and not counted as one more group, and a model whose records all
\* lack policy_id gets 0. The summary shows one entry per model with this count.
C24_UniquePolicies ==
    pc = "summarised" =>
        LET shown == SelectSeq(printed, LAMBDA l : l.line = "summary")
        IN /\ Len(shown) = Len(combined)
           /\ \A e \in DOMAIN combined :
                  LET rs == combined[e].recs
                  IN /\ shown[e].model = combined[e].id
                     /\ shown[e].total = Len(rs)
                     /\ shown[e].unique = Cardinality(PolicyValues(rs))
                     /\ shown[e].unique = UniqueGet(CountUniquePolicies(combined), combined[e].id)
                     /\ (\A h \in DOMAIN rs : ~HasKey(rs[h], "policy_id")) => shown[e].unique = 0

\* C24 witness: a model with a record of policy 1 and a record without
\* policy_id is shown with 2 records and 1 policy; another model exists.
C24_Witness ==
    /\ pc = "summarised" /\ Len(combined) = 2
    /\ \E h \in DOMAIN printed :
           /\ printed[h].line = "summary"
           /\ printed[h].total = 2 /\ printed[h].unique = 1
           /\ \E k \in 1..2 : ~HasKey(Lookup(combined, printed[h].model)[k], "policy_id")

-----------------------------------------------------------------------------
(* inference.py: run_inference starts one thread per entry of models, each *)
(* thread runs _infer_for_model, and run_inference joins them in order.    *)

MaxWorkers == 2     \* entries of the models list, one thread each

\* Loaded policies: none, or a policy without annotations between two
\* policies with one annotation each.
Ann(text, label) == [Text |-> PyS(<<text>>), Label |-> label]

Datasets ==
    {<<>>,
     <<[policy_id |-> PyInt(1), annotations |-> <<Ann("a", TaxA)>>],
       [policy_id |-> PyInt(3), annotations |-> <<>>],
       [policy_id |-> PyInt(2), annotations |-> <<Ann("b", TaxB)>>]>>}

\* the model lists of at most b entries; an id may be given twice
ModelLists(b) == UNION {[1..n -> Models] : n \in 0..b}

\* the (policy_id, span, gold) of the annotations from item i on, in the
\* order of `for item in data: for ann in item["annotations"]`
RECURSIVE Todo(_, _)
Todo(d, i) ==
    IF i > Len(d) THEN <<>>
    ELSE [k \in DOMAIN d[i].annotations |->
             [policy_id |-> d[i]["policy_id"],
              span |-> d[i].annotations[k]["Text"],
              gold |-> d[i].annotations[k]["Label"]]]
         \o Todo(d, i + 1)

\* d[key] = value on an ordered dict
Put(d, key, value) ==
    IF key \in Ids(d)
    THEN [e \in DOMAIN d |-> IF d[e].id = key THEN [id |-> key, recs |-> value] ELSE d[e]]
    ELSE Append(d, [id |-> key, recs |-> value])

Started == {w \in DOMAIN workers : workers[w].pc # "new"}

\* for model_id in models: t = threading.Thread(...); t.start()
StartThread ==
    /\ pc = "inferring"
    /\ Cardinality(Started) < Len(model_list)
    /\ workers' = [workers EXCEPT ![Cardinality(Started) + 1].pc = "running"]
    /\ UNCHANGED <<pc, model_list, policies, lock, all_results, dump, joined>>
    /\ UNCHANGED mergeVars
    /\ UNCHANGED filterVars
    /\ UNCHANGED reportVars
    /\ UNCHANGED runVars

\* one turn of the inner loop: classify returns a prediction, the record is appended
Classify(w) ==
    /\ workers[w].pc = "running"
    /\ Len(workers[w].results) < Len(Todo(policies, 1))
    /\ \E pred \in {TaxA, TaxB} :
           LET ann == Todo(policies, 1)[Len(workers[w].results) + 1]
           IN workers' = [workers EXCEPT ![w].results =
                             Append(@, [policy_id |-> ann.policy_id, span |-> ann.span,
                                        gold |-> ann.gold, pred |-> pred])]
    /\ UNCHANGED <<pc, model_list, policies, lock, all_results, dump, joined>>
    /\ UNCHANGED mergeVars
    /\ UNCHANGED filterVars
    /\ UNCHANGED reportVars
    /\ UNCHANGED runVars

\* LLMClient(model=model_id) or client.classify raises: the thread ends there
Dies(w) ==
    /\ workers[w].pc = "running"
    /\ workers[w].results = <<>> \/ Len(workers[w].results) < Len(Todo(policies, 1))
    /\ workers' = [workers EXCEPT ![w].pc = "died"]
    /\ UNCHANGED <<pc, model_list, policies, lock, all_results, dump, joined>>
    /\ UNCHANGED mergeVars
    /\ UNCHANGED filterVars
    /\ UNCHANGED reportVars
    /\ UNCHANGED runVars

\* mutant: the lock is taken without waiting for it to be free
Acquire_NoWait(w) ==
    /\ workers[w].pc = "running"
    /\ Len(workers[w].results) = Len(Todo(policies, 1))
    /\ lock' = w
    /\ workers' = [workers EXCEPT ![w].pc = "locked"]
    /\ UNCHANGED <<pc, model_list, policies, all_results, dump, joined>>
    /\ UNCHANGED mergeVars
    /\ UNCHANGED filterVars
    /\ UNCHANGED reportVars
    /\ UNCHANGED runVars

\* with lock: (after the loops)
Acquire(w) ==
    /\ workers[w].pc = "running"
    /\ Len(workers[w].results) = Len(Todo(policies, 1))
    /\ lock = 0
    /\ lock' = w
    /\ workers' = [workers EXCEPT ![w].pc = "locked"]
    /\ UNCHANGED <<pc, model_list, policies, all_results, dump, joined>>
    /\ UNCHANGED mergeVars
    /\ UNCHANGED filterVars
    /\ UNCHANGED reportVars
    /\ UNCHANGED runVars

\* all_results[model_id] = results
Publish(w) ==
    /\ workers[w].pc = "locked"
    /\ all_results' = Put(all_results, model_list[w], workers[w].results)
    /\ workers' = [workers EXCEPT ![w].pc = "published"]
    /\ UNCHANGED <<pc, model_list, policies, lock, dump, joined>>
    /\ UNCHANGED mergeVars
    /\ UNCHANGED filterVars
    /\ UNCHANGED reportVars
    /\ UNCHANGED runVars

\* with open(DUMP_PATH, "w") as f: json.dump(all_results, f)
WriteDump(w) ==
    /\ workers[w].pc = "published"
    /\ dump' = [exists |-> TRUE, content |-> all_results]
    /\ workers' = [workers EXCEPT ![w].pc = "dumped"]
    /\ UNCHANGED <<pc, model_list, policies, lock, all_results, joined>>
    /\ UNCHANGED mergeVars
    /\ UNCHANGED filterVars
    /\ UNCHANGED reportVars
    /\ UNCHANGED runVars

\* the end of the with block releases the lock; the thread finishes
Release(w) ==
    /\ workers[w].pc = "dumped"
    /\ lock' = 0
    /\ workers' = [workers EXCEPT ![w].pc = "finished"]
    /\ UNCHANGED <<pc, model_list, policies, all_results, dump, joined>>
    /\ UNCHANGED mergeVars
    /\ UNCHANGED filterVars
    /\ UNCHANGED reportVars
    /\ UNCHANGED runVars

\* for t in threads: t.join() -- returns when the thread has ended
JoinThread ==
    /\ pc = "inferring"
    /\ Cardinality(Started) = Len(model_list)
    /\ joined < Len(model_list)
    /\ workers[joined + 1].pc \in {"finished", "died"}
    /\ joined' = joined + 1
    /\ UNCHANGED <<pc, model_list, policies, workers, lock, all_results, dump>>
    /\ UNCHANGED mergeVars
    /\ UNCHANGED filterVars
    /\ UNCHANGED reportVars
    /\ UNCHANGED runVars

\* return all_results
ReturnResults ==
    /\ pc = "inferring"
    /\ Cardinality(Started) = Len(model_list)
    /\ joined = Len(model_list)
    /\ pc' = "returned"
    /\ UNCHANGED inferVars
    /\ UNCHANGED mergeVars
    /\ UNCHANGED filterVars
    /\ UNCHANGED reportVars
    /\ UNCHANGED runVars

ClassifyStep == \E w \in DOMAIN workers : Classify(w)
DiesStep == \E w \in DOMAIN workers : Dies(w)
AcquireStep == \E w \in DOMAIN workers : Acquire(w)
PublishStep == \E w \in DOMAIN workers : Publish(w)
WriteDumpStep == \E w \in DOMAIN workers : WriteDump(w)
ReleaseStep == \E w \in DOMAIN workers : Release(w)

InitInfer ==
    /\ pc = "inferring"
    /\ model_list \in ModelLists(MaxWorkers)
    /\ policies \in Datasets
    /\ workers = [w \in DOMAIN model_list |-> [pc |-> "new", results |-> <<>>]]
    /\ lock = 0 /\ all_results = <<>> /\ dump = NotWritten /\ joined = 0
    /\ MergeIdle
    /\ FilterIdle
    /\ ReportIdle
    /\ RunIdle

NextInfer ==
    \/ StartThread \/ ClassifyStep \/ DiesStep \/ AcquireStep \/ PublishStep
    \/ WriteDumpStep \/ ReleaseStep \/ JoinThread \/ ReturnResults

SpecInfer == InitInfer /\ [][NextInfer]_vars

\* the threads that have assigned their entry
Published == {w \in DOMAIN workers : workers[w].pc \in {"published", "dumped", "finished"}}

\* the threads inside the with block
Holding == {w \in DOMAIN workers : workers[w].pc \in {"locked", "published", "dumped"}}

\* rs is a complete result list: one record per annotation, in the order of
\* the items and of their annotations, each with a prediction
CompleteList(rs) ==
    /\ Len(rs) = Len(Todo(policies, 1))
    /\ \A k \in DOMAIN rs :
           /\ DOMAIN rs[k] = {"policy_id", "span", "gold", "pred"}
           /\ \A f \in {"policy_id", "span", "gold"} : rs[k][f] = Todo(policies, 1)[k][f]

\* d[key] when key is in d, else a value no list equals
Entry(d, key) == IF key \in Ids(d) THEN <<Lookup(d, key)>> ELSE <<>>

\* d has no key twice
NoDoubleKey(d) == \A e, g \in DOMAIN d : d[e].id = d[g].id => e = g

=============================================================================
